---- MODULE Spec2Model ----
(***************************************************************************)
(* A model of the bitcoinkernel C++ wrapper (kernel_header namespace,      *)
(* src/depend/bitcoin/src/kernel/bitcoinkernel.cpp) and of its C boundary  *)
(* (src/depend/bitcoin/src/kernel/types.h).                                *)
(*                                                                         *)
(* The sub-systems are modelled each with a specification of its own:     *)
(*   SpecVerify  ScriptPubkey::VerifyScript and its argument checks        *)
(*   SpecCodec   Block / Transaction construction from bytes, GetBlockData *)
(*   SpecChain   ChainstateManager::ProcessBlock and the block index       *)
(*   SpecManager the life of a ChainstateManager: options, construction,   *)
(*               storage reads and errors, notifications, destruction      *)
(*   SpecValidation   BlockValidationState and the BlockChecked callback   *)
(*   SpecContext      the life of a Context                                *)
(*   SpecLogger       Logger handles on the log instance                   *)
(*   SpecConstruction a ChainstateManager constructed while the setters of *)
(*                    its options run on another thread                    *)
(*   SpecThreads      writer and reader threads on one ChainstateManager   *)
(*   SpecImport       the writer threads and Context::Interrupt, with the  *)
(*                    threads scheduled fairly                             *)
(***************************************************************************)
EXTENDS Integers, Sequences, FiniteSets, TLC

VARIABLES
    verify,     \* the last ScriptPubkey::VerifyScript call: arguments and outcome
    codec,      \* the last Block / Transaction construction from bytes
    chain,      \* the ChainstateManager: block index, active chain, last call
    manager,    \* the life of a ChainstateManager, from its options to its release
    validation, \* a BlockValidationState and what the validation observer was told
    context,    \* a Context: its options, its construction and its destruction
    logger,     \* the log instance and the Logger handles connected to it
    construction, \* a ChainstateManager constructed while its options' setters run
    threads     \* threads writing to and reading from one ChainstateManager

vars == <<verify, codec, chain, manager, validation, context, logger, construction, threads>>

NULL == "null"

(***************************************************************************)
(* unsigned int (32 bits).  A word is held as the set of the positions of  *)
(* its 1 bits, so that ~, & and | are exact on all 32 bits.                *)
(***************************************************************************)
UINT_BITS == 32

Word == SUBSET (0 .. UINT_BITS - 1)

\* the word of a number below 2^31
ToBits(n) == {k \in 0 .. UINT_BITS - 2 : (n \div (2 ^ k)) % 2 = 1}

\* a & b
BitAnd(a, b) == a \cap b

\* a | b
BitOr(a, b) == a \cup b

\* ~a
BitNot(a) == (0 .. UINT_BITS - 1) \ a

\* a word used as a condition: non-zero
NonZero(a) == a # {}

(***************************************************************************)
(* Script verification flags (kernel/script_flags.h, included at           *)
(* bitcoinkernel.cpp:26 through script/interpreter.h).                     *)
(***************************************************************************)
SCRIPT_VERIFY_P2SH == 2 ^ 0
SCRIPT_VERIFY_CLEANSTACK == 2 ^ 8
SCRIPT_VERIFY_WITNESS == 2 ^ 11
SCRIPT_VERIFY_TAPROOT == 2 ^ 17
SCRIPT_VERIFY_DISCOURAGE_UPGRADABLE_PUBKEYTYPE == 2 ^ 20
\* the enumerator that follows the last flag
SCRIPT_VERIFY_END_MARKER == SCRIPT_VERIFY_DISCOURAGE_UPGRADABLE_PUBKEYTYPE + 1

\* the bit positions that are script verification flags
DefinedFlagBits == 0 .. 20

(***************************************************************************)
(* ScriptPubkey::VerifyScript (bitcoinkernel.cpp:67-72, 165-223).          *)
(***************************************************************************)
MaxInputs == 2

is_valid_flag_combination_no_witness(flags) ==
    IF NonZero(BitAnd(flags, ToBits(SCRIPT_VERIFY_CLEANSTACK)))
       /\ NonZero(BitAnd(BitNot(flags), ToBits(SCRIPT_VERIFY_P2SH)))
    THEN FALSE
    ELSE IF NonZero(BitAnd(flags, ToBits(SCRIPT_VERIFY_WITNESS)))
            /\ NonZero(BitAnd(BitNot(flags), ToBits(SCRIPT_VERIFY_P2SH)))
    THEN FALSE
    ELSE TRUE

is_valid_flag_combination(flags) ==
    IF NonZero(BitAnd(flags, ToBits(SCRIPT_VERIFY_CLEANSTACK)))
       /\ NonZero(BitAnd(BitNot(flags),
                         BitOr(ToBits(SCRIPT_VERIFY_P2SH), ToBits(SCRIPT_VERIFY_WITNESS))))
    THEN FALSE
    ELSE IF NonZero(BitAnd(flags, ToBits(SCRIPT_VERIFY_WITNESS)))
            /\ NonZero(BitAnd(BitNot(flags), ToBits(SCRIPT_VERIFY_P2SH)))
    THEN FALSE
    ELSE TRUE

verify_flags_unshifted(flags) ==
    LET all_valid_flags == ToBits(SCRIPT_VERIFY_END_MARKER - 1)
    IN  BitAnd(flags, all_valid_flags) = flags

verify_flags(flags) ==
    LET all_valid_flags == ToBits(((SCRIPT_VERIFY_END_MARKER - 1) * 2) - 1)
    IN  BitAnd(flags, all_valid_flags) = flags

taproot_without_spent_outputs_wrong_flag(flags, spent_outputs) ==
    NonZero(BitAnd(flags, ToBits(SCRIPT_VERIFY_WITNESS))) /\ spent_outputs = <<>>

\* line 189: flags & SCRIPT_VERIFY_TAPROOT && spent_outputs.empty()
taproot_without_spent_outputs(flags, spent_outputs) ==
    NonZero(BitAnd(flags, ToBits(SCRIPT_VERIFY_TAPROOT))) /\ spent_outputs = <<>>

spent_outputs_mismatch_short_only(spent_outputs, vin_size) ==
    spent_outputs # <<>> /\ Len(spent_outputs) < vin_size

\* lines 196-197: !spent_outputs.empty() and spent_outputs.size() != tx.vin.size()
spent_outputs_mismatch(spent_outputs, vin_size) ==
    spent_outputs # <<>> /\ Len(spent_outputs) # vin_size

input_index_out_of_bounds_off_by_one(input_index, vin_size) == input_index > vin_size

\* line 207: input_index >= tx.vin.size()
input_index_out_of_bounds(input_index, vin_size) == input_index >= vin_size

txdata_init_runs_any_flags(flags, spent_outputs_vec) == spent_outputs_vec # <<>>

\* line 213: whether txdata.Init(tx, spent_outputs_vec) runs
txdata_init_runs(flags, spent_outputs_vec) ==
    spent_outputs_vec # <<>> /\ NonZero(BitAnd(flags, ToBits(SCRIPT_VERIFY_TAPROOT)))

\* lines 211-222: what a call that passed every check does, in order: the
\* precomputed data is constructed from the transaction, the spent outputs
\* are moved into it when line 213 says so, and the interpreter runs with it
VerifySteps(flags, spent_outputs_vec) ==
    <<"PrecomputedTransactionData">>
    \o (IF txdata_init_runs(flags, spent_outputs_vec) THEN <<"txdata.Init">> ELSE <<>>)
    \o <<"::VerifyScript">>

\* what a call that dereferences the null m_impl of an invalid Transaction
\* (line 194) may do: undefined behaviour
UBOutcomes == [ret : {0, 1}, interp : BOOLEAN, crashed : BOOLEAN]

VerifyOutcome(ret, stage, interp, txdata_spent, crashed) ==
    [ret |-> ret, stage |-> stage, interp |-> interp,
     txdata_spent |-> txdata_spent, crashed |-> crashed]

\* The outcome of one call.  tx_valid: tx_to.m_impl is not null; vin_size:
\* tx.vin.size(); verdict: what ::VerifyScript returns if it is reached; ub:
\* what the build does on undefined behaviour.
VerifyScript(tx_valid, vin_size, spent_outputs, input_index, flags, verdict, ub) ==
    IF ~verify_flags(flags)
    THEN VerifyOutcome(0, "flags", FALSE, <<>>, FALSE)
    ELSE IF ~is_valid_flag_combination(flags)
    THEN VerifyOutcome(0, "combination", FALSE, <<>>, FALSE)
    ELSE IF taproot_without_spent_outputs(flags, spent_outputs)
    THEN VerifyOutcome(0, "taproot", FALSE, <<>>, FALSE)
    ELSE IF ~tx_valid
    THEN VerifyOutcome(ub.ret, "undefined", ub.interp, <<>>, ub.crashed)
    ELSE IF spent_outputs_mismatch(spent_outputs, vin_size)
    THEN VerifyOutcome(0, "spent_count", FALSE, <<>>, FALSE)
    ELSE LET spent_outputs_vec == spent_outputs IN
         IF input_index_out_of_bounds(input_index, vin_size)
         THEN VerifyOutcome(0, "index", FALSE, <<>>, FALSE)
         ELSE VerifyOutcome(IF verdict THEN 1 ELSE 0, "interpreter", TRUE,
                            IF txdata_init_runs(flags, spent_outputs_vec)
                            THEN spent_outputs_vec ELSE <<>>,
                            FALSE)

\* the steps of one call: none unless the call reaches line 211
StepsOf(out, flags, spent_outputs) ==
    IF out.stage = "interpreter" THEN VerifySteps(flags, spent_outputs) ELSE <<>>

(***************************************************************************)
(* kernel_verify_script (types.h:410-432) and the TransactionOutput        *)
(* objects its array of pointers refers to.  The free store is a row of    *)
(* slots of the size of a TransactionOutput; an address is a slot number.  *)
(***************************************************************************)
HeapSlots == 1 .. MaxInputs + 2

\* where n calls of kernel_transaction_output_create put their objects:
\* object k is at address a[k], no two objects share a slot
Placements(n) ==
    {a \in [1 .. n -> HeapSlots] : \A j \in 1 .. n, k \in 1 .. n : a[j] = a[k] => j = k}

\* what is read as a TransactionOutput at an address: the object allocated
\* there, or 0 where no TransactionOutput was allocated
ObjectAt(placed, address) ==
    LET there == {k \in 1 .. Len(placed) : placed[k] = address} IN
    IF there = {} THEN 0 ELSE CHOOSE k \in there : TRUE

\* lines 421-424: the span starts at the object the first pointer refers to
\* and takes the spent_outputs_len objects that follow it in memory
SpanFromFirst(spent_outputs_, spent_outputs_len) ==
    IF spent_outputs_ = <<>> THEN <<>>
    ELSE LET first_output == spent_outputs_[1] IN
         [i \in 1 .. spent_outputs_len |-> ObjectAt(spent_outputs_, first_output + (i - 1))]

\* kernel_verify_script: spent_outputs_ is the caller's array of pointers
\* (empty for a null array).  Copying an element that is no TransactionOutput
\* (line 203) is undefined behaviour.
kernel_verify_script(vin_size, spent_outputs_, spent_outputs_len, input_index, flags, verdict, ub) ==
    LET spent_outputs == SpanFromFirst(spent_outputs_, spent_outputs_len)
        out == VerifyScript(TRUE, vin_size, spent_outputs, input_index, flags, verdict, ub)
        copied == out.stage \in {"index", "interpreter"}
        wild == \E i \in 1 .. Len(spent_outputs) : spent_outputs[i] = 0
    IN [spent_outputs |-> spent_outputs,
        out |-> IF copied /\ wild
                THEN VerifyOutcome(ub.ret, "undefined", ub.interp, <<>>, ub.crashed)
                ELSE out]

\* no call of kernel_verify_script
NoKernelCall ==
    [called |-> FALSE, spent_outputs_ |-> <<>>, spent_outputs |-> <<>>,
     out |-> VerifyOutcome(0, "none", FALSE, <<>>, FALSE)]

\* the first bit above the script verification flags
FirstUndefinedFlag == (SCRIPT_VERIFY_END_MARKER - 1) * 2

\* the flag words the calls are made with: every combination of these bits
FlagInputBits ==
    ToBits(SCRIPT_VERIFY_P2SH) \cup ToBits(SCRIPT_VERIFY_CLEANSTACK)
    \cup ToBits(SCRIPT_VERIFY_WITNESS) \cup ToBits(SCRIPT_VERIFY_TAPROOT)
    \cup ToBits(SCRIPT_VERIFY_DISCOURAGE_UPGRADABLE_PUBKEYTYPE)
    \cup ToBits(FirstUndefinedFlag) \cup {UINT_BITS - 1}

\* the spent outputs handed in: the outputs numbered 1 .. n
SpentOutputs(n) == [i \in 1 .. n |-> i]

VerifyIdle ==
    [called |-> FALSE, flags |-> {}, tx_valid |-> TRUE, vin_size |-> 0,
     spent_outputs |-> <<>>, input_index |-> 0,
     out |-> VerifyOutcome(0, "none", FALSE, <<>>, FALSE),
     steps |-> <<>>, kernel |-> NoKernelCall]

\* one call of VerifyScript by the caller, who then holds its outcome
VerifyScriptCall ==
    /\ ~verify.called /\ ~verify.kernel.called
    /\ \E flags \in SUBSET FlagInputBits, tx_valid \in BOOLEAN,
          vin_size \in 0 .. MaxInputs, n \in 0 .. MaxInputs + 1,
          input_index \in 0 .. MaxInputs + 1, verdict \in BOOLEAN, ub \in UBOutcomes :
          LET out == VerifyScript(tx_valid, vin_size, SpentOutputs(n),
                                  input_index, flags, verdict, ub) IN
          verify' = [called |-> TRUE, flags |-> flags, tx_valid |-> tx_valid,
                     vin_size |-> vin_size, spent_outputs |-> SpentOutputs(n),
                     input_index |-> input_index,
                     out |-> out,
                     steps |-> StepsOf(out, flags, SpentOutputs(n)),
                     kernel |-> NoKernelCall]
    /\ UNCHANGED <<codec, chain, manager, validation, context, logger, construction, threads>>

\* the flag words kernel_verify_script is called with
KernelFlagInputs == {{}, ToBits(SCRIPT_VERIFY_TAPROOT)}

\* one call of kernel_verify_script with an array of pointers to n outputs,
\* each made by a call of kernel_transaction_output_create of its own
KernelVerifyScriptCall ==
    /\ ~verify.called /\ ~verify.kernel.called
    /\ \E flags \in KernelFlagInputs, vin_size \in 1 .. MaxInputs, n \in 0 .. MaxInputs,
          verdict \in BOOLEAN, ub \in UBOutcomes :
       \E placed \in Placements(n) :
          LET r == kernel_verify_script(vin_size, placed, n, 0, flags, verdict, ub) IN
          verify' = [verify EXCEPT
                        !.kernel = [called |-> TRUE, spent_outputs_ |-> placed,
                                    spent_outputs |-> r.spent_outputs, out |-> r.out]]
    /\ UNCHANGED <<codec, chain, manager, validation, context, logger, construction, threads>>

\* the caller drops the outcome and is ready for the next call
VerifyScriptDone ==
    /\ verify.called \/ verify.kernel.called
    /\ verify' = VerifyIdle
    /\ UNCHANGED <<codec, chain, manager, validation, context, logger, construction, threads>>

(***************************************************************************)
(* Claims about ScriptPubkey::VerifyScript, checked under SpecVerify.      *)
(***************************************************************************)
\* whether the flag f is set in the word flags
FlagSet(flags, f) == ToBits(f) \subseteq flags

\* the flag combinations the claim C1 names as rejected
BadCombination(flags) ==
    \/ FlagSet(flags, SCRIPT_VERIFY_CLEANSTACK) /\ (~FlagSet(flags, SCRIPT_VERIFY_P2SH) \/ ~FlagSet(flags, SCRIPT_VERIFY_WITNESS))
    \/ FlagSet(flags, SCRIPT_VERIFY_WITNESS) /\ ~FlagSet(flags, SCRIPT_VERIFY_P2SH)

AllBitsDefined(flags) == flags \subseteq DefinedFlagBits

\* C1: VerifyScript returns false, without invoking the script interpreter, for
\* every flags value with CLEANSTACK set while P2SH or WITNESS is unset and for
\* every flags value with WITNESS set while P2SH is unset; for every other
\* combination of defined flags the combination check does not reject.
C1_FlagCombination ==
    verify.called =>
        /\ BadCombination(verify.flags) =>
               verify.out.ret = 0 /\ ~verify.out.interp /\ ~verify.out.crashed
        /\ (AllBitsDefined(verify.flags) /\ ~BadCombination(verify.flags)) =>
               verify.out.stage # "combination"
        /\ (AllBitsDefined(verify.flags) /\ BadCombination(verify.flags)) =>
               verify.out.stage = "combination"

C1_Witness ==
    /\ verify.called
    /\ FlagSet(verify.flags, SCRIPT_VERIFY_CLEANSTACK) /\ FlagSet(verify.flags, SCRIPT_VERIFY_P2SH)
    /\ ~FlagSet(verify.flags, SCRIPT_VERIFY_WITNESS)
    /\ verify.out.stage = "combination" /\ verify.out.ret = 0

\* C2: VerifyScript returns false whenever flags has a bit set that is not a
\* defined script verification flag, and verify_flags accepts exactly the flag
\* values whose set bits are all defined flags.
C2_UnknownFlagBits ==
    verify.called =>
        /\ ~AllBitsDefined(verify.flags) =>
               /\ verify.out.ret = 0 /\ ~verify.out.interp /\ ~verify.out.crashed
               /\ verify.out.stage = "flags"
        /\ AllBitsDefined(verify.flags) => verify.out.stage # "flags"

C2_Witness ==
    /\ verify.called
    /\ verify.flags = ToBits(FirstUndefinedFlag) \cup ToBits(SCRIPT_VERIFY_P2SH)
    /\ verify.out.stage = "flags" /\ verify.out.ret = 0

\* C3: VerifyScript returns false whenever the TAPROOT flag is set and the
\* spent outputs are empty, whatever the other arguments are (an invalid
\* transaction handle included).
C3_TaprootNeedsSpentOutputs ==
    (verify.called /\ FlagSet(verify.flags, SCRIPT_VERIFY_TAPROOT) /\ verify.spent_outputs = <<>>) =>
        verify.out.ret = 0 /\ ~verify.out.interp /\ ~verify.out.crashed

C3_Witness ==
    /\ verify.called
    /\ FlagSet(verify.flags, SCRIPT_VERIFY_TAPROOT) /\ verify.spent_outputs = <<>>
    /\ ~verify.tx_valid
    /\ verify.out.stage = "taproot" /\ verify.out.ret = 0

\* C4: for a valid transaction, VerifyScript returns false whenever the spent
\* outputs are non-empty and their number differs from the number of inputs;
\* empty spent outputs are never rejected by this length check.
C4_SpentOutputsLength ==
    (verify.called /\ verify.tx_valid) =>
        /\ (verify.spent_outputs # <<>>
            /\ Len(verify.spent_outputs) # verify.vin_size) =>
               verify.out.ret = 0 /\ ~verify.out.interp
        /\ verify.spent_outputs = <<>> => verify.out.stage # "spent_count"

C4_Witness ==
    /\ verify.called /\ verify.tx_valid
    /\ Len(verify.spent_outputs) = verify.vin_size + 1
    /\ verify.out.stage = "spent_count" /\ verify.out.ret = 0

\* C5: for a valid transaction, VerifyScript returns false whenever input_index
\* is at least the number of inputs, so the interpreter only ever runs on an
\* input that exists.
C5_InputIndexInRange ==
    (verify.called /\ verify.tx_valid) =>
        /\ verify.input_index >= verify.vin_size =>
               verify.out.ret = 0 /\ ~verify.out.interp
        /\ verify.out.interp => verify.input_index < verify.vin_size

C5_Witness ==
    /\ verify.called /\ verify.tx_valid
    /\ verify.vin_size > 0 /\ verify.input_index = verify.vin_size
    /\ verify.out.stage = "index" /\ verify.out.ret = 0

\* the steps at the positions `from` .. `to` of the call
StepsBetween(from, to) == {verify.steps[k] : k \in from .. to}

\* C25: the precomputed transaction data is built before the interpreter
\* runs; the spent outputs are loaded into it exactly when they are not
\* empty and the TAPROOT flag is set; with the TAPROOT flag unset, spent
\* outputs that are handed in are length-checked and the interpreter gets
\* none of them.
C25_PrecomputedBeforeInterpreter ==
    (verify.called /\ verify.tx_valid) =>
        /\ verify.out.interp <=> verify.steps # <<>>
        /\ verify.out.interp =>
              /\ verify.steps[1] = "PrecomputedTransactionData"
              /\ verify.steps[Len(verify.steps)] = "::VerifyScript"
              /\ "::VerifyScript" \notin StepsBetween(1, Len(verify.steps) - 1)
              /\ ("txdata.Init" \in StepsBetween(1, Len(verify.steps)))
                    <=> (verify.spent_outputs # <<>>
                         /\ FlagSet(verify.flags, SCRIPT_VERIFY_TAPROOT))
              /\ verify.out.txdata_spent =
                    IF "txdata.Init" \in StepsBetween(1, Len(verify.steps))
                    THEN verify.spent_outputs ELSE <<>>
        /\ (~FlagSet(verify.flags, SCRIPT_VERIFY_TAPROOT) /\ verify.spent_outputs # <<>>) =>
              /\ Len(verify.spent_outputs) # verify.vin_size => ~verify.out.interp
              /\ verify.out.txdata_spent = <<>>

C25_Witness ==
    /\ verify.called /\ verify.tx_valid /\ verify.out.interp
    /\ ~FlagSet(verify.flags, SCRIPT_VERIFY_TAPROOT)
    /\ Len(verify.spent_outputs) = 2
    /\ verify.steps = <<"PrecomputedTransactionData", "::VerifyScript">>

\* C27: kernel_verify_script hands the caller's spent outputs on unchanged:
\* the i-th spent output VerifyScript sees is the object the i-th pointer
\* of the caller's array refers to.
C27_SpentOutputsPassedThrough ==
    verify.kernel.called =>
        /\ Len(verify.kernel.spent_outputs) = Len(verify.kernel.spent_outputs_)
        /\ \A i \in 1 .. Len(verify.kernel.spent_outputs_) :
               verify.kernel.spent_outputs[i] = i

(***************************************************************************)
(* The wire format: DataStream extraction and insertion of compact sizes,  *)
(* byte vectors, transactions and blocks (serialize.h, primitives/), as    *)
(* used by `stream >> TX_WITH_WITNESS(...)` and `ss << TX_WITH_WITNESS`.   *)
(* A read yields [ok, val, rest]: ok is FALSE where the stream throws.     *)
(***************************************************************************)
Byte == 0 .. 255

INT32_BYTES == 4
INT64_BYTES == 8
HASH_BYTES == 32
\* serialize.h: the largest compact size a read accepts (0x02000000)
MAX_SIZE == 33554432

ReadFail == [ok |-> FALSE, val |-> NULL, rest |-> <<>>]
ReadOk(v, rest) == [ok |-> TRUE, val |-> v, rest |-> rest]

\* DataStream::read of n bytes: "end of data" when fewer are left
ReadBytes(s, n) ==
    IF Len(s) < n THEN ReadFail
    ELSE ReadOk(SubSeq(s, 1, n), SubSeq(s, n + 1, Len(s)))

\* the next read, made only when the read before it did not throw
Then(r, read(_)) == IF r.ok THEN read(r) ELSE ReadFail

\* ReadCompactSize after the marker 253: two bytes, not below 253
ReadCompactSize16(b) ==
    LET n == b.val[1] + 256 * b.val[2] IN
    IF n < 253 THEN ReadFail ELSE ReadOk(n, b.rest)

\* ReadCompactSize after the marker 254: four bytes, not below 0x10000 and
\* not above MAX_SIZE
ReadCompactSize32(b) ==
    IF b.val[4] > 2 THEN ReadFail  \* above MAX_SIZE
    ELSE LET n == b.val[1] + 256 * b.val[2] + 65536 * b.val[3] + 16777216 * b.val[4] IN
         IF n < 65536 THEN ReadFail
         ELSE IF n > MAX_SIZE THEN ReadFail
         ELSE ReadOk(n, b.rest)

\* ReadCompactSize with range_check: non-canonical and oversized sizes throw
ReadCompactSize(s) ==
    Then(ReadBytes(s, 1), LAMBDA chSize :
        IF chSize.val[1] < 253 THEN ReadOk(chSize.val[1], chSize.rest)
        ELSE IF chSize.val[1] = 253
        THEN Then(ReadBytes(chSize.rest, 2), LAMBDA b : ReadCompactSize16(b))
        ELSE IF chSize.val[1] = 254
        THEN Then(ReadBytes(chSize.rest, 4), LAMBDA b : ReadCompactSize32(b))
        ELSE \* 255: eight bytes, either below 2^32 (non-canonical) or above MAX_SIZE
             ReadFail)

\* WriteCompactSize, for the sizes below 2^31
WriteCompactSize(n) ==
    IF n < 253 THEN <<n>>
    ELSE IF n <= 65535 THEN <<253, n % 256, n \div 256>>
    ELSE <<254, n % 256, (n \div 256) % 256, (n \div 65536) % 256, n \div 16777216>>

\* a vector of unsigned char (CScript, a witness stack item)
ReadByteVector(s) == Then(ReadCompactSize(s), LAMBDA n : ReadBytes(n.rest, n.val))

WriteByteVector(v) == WriteCompactSize(Len(v)) \o v

\* CTxIn: prevout (hash and index), scriptSig, nSequence
ReadTxIn(s) ==
    Then(ReadBytes(s, HASH_BYTES + INT32_BYTES), LAMBDA prevout :
    Then(ReadByteVector(prevout.rest), LAMBDA scriptSig :
    Then(ReadBytes(scriptSig.rest, INT32_BYTES), LAMBDA nSequence :
        ReadOk([prevout |-> prevout.val, scriptSig |-> scriptSig.val,
                nSequence |-> nSequence.val, scriptWitness |-> <<>>],
               nSequence.rest))))

WriteTxIn(in) == in.prevout \o WriteByteVector(in.scriptSig) \o in.nSequence

\* CTxOut: nValue, scriptPubKey
ReadTxOut(s) ==
    Then(ReadBytes(s, INT64_BYTES), LAMBDA nValue :
    Then(ReadByteVector(nValue.rest), LAMBDA scriptPubKey :
        ReadOk([nValue |-> nValue.val, scriptPubKey |-> scriptPubKey.val],
               scriptPubKey.rest)))

WriteTxOut(out) == out.nValue \o WriteByteVector(out.scriptPubKey)

\* n elements read one after the other, appended to acc
RECURSIVE ReadTxIns(_, _, _)
ReadTxIns(n, s, acc) ==
    IF n = 0 THEN ReadOk(acc, s)
    ELSE Then(ReadTxIn(s), LAMBDA e : ReadTxIns(n - 1, e.rest, Append(acc, e.val)))

RECURSIVE ReadTxOuts(_, _, _)
ReadTxOuts(n, s, acc) ==
    IF n = 0 THEN ReadOk(acc, s)
    ELSE Then(ReadTxOut(s), LAMBDA e : ReadTxOuts(n - 1, e.rest, Append(acc, e.val)))

RECURSIVE ReadByteVectors(_, _, _)
ReadByteVectors(n, s, acc) ==
    IF n = 0 THEN ReadOk(acc, s)
    ELSE Then(ReadByteVector(s), LAMBDA e : ReadByteVectors(n - 1, e.rest, Append(acc, e.val)))

ReadVin(s) == Then(ReadCompactSize(s), LAMBDA n : ReadTxIns(n.val, n.rest, <<>>))

ReadVout(s) == Then(ReadCompactSize(s), LAMBDA n : ReadTxOuts(n.val, n.rest, <<>>))

\* a witness stack: a vector of byte vectors
ReadStack(s) == Then(ReadCompactSize(s), LAMBDA n : ReadByteVectors(n.val, n.rest, <<>>))

RECURSIVE Concat(_)
Concat(seqs) == IF seqs = <<>> THEN <<>> ELSE Head(seqs) \o Concat(Tail(seqs))

WriteVin(vin) == WriteCompactSize(Len(vin)) \o Concat([i \in 1 .. Len(vin) |-> WriteTxIn(vin[i])])

WriteVout(vout) ==
    WriteCompactSize(Len(vout)) \o Concat([i \in 1 .. Len(vout) |-> WriteTxOut(vout[i])])

WriteStack(stack) ==
    WriteCompactSize(Len(stack))
    \o Concat([i \in 1 .. Len(stack) |-> WriteByteVector(stack[i])])

\* the witness stacks of the inputs i .. Len(vin), read in order into vin
RECURSIVE ReadWitnesses(_, _, _)
ReadWitnesses(vin, i, s) ==
    IF i > Len(vin) THEN ReadOk(vin, s)
    ELSE Then(ReadStack(s), LAMBDA st :
             ReadWitnesses([vin EXCEPT ![i].scriptWitness = st.val], i + 1, st.rest))

\* CTransaction::HasWitness: some input has a non-empty witness stack
HasWitness(vin) == \E i \in 1 .. Len(vin) : vin[i].scriptWitness # <<>>

\* UnserializeTransaction: the extended format has an empty vin as marker,
\* then a flags byte; flags bit 0 announces the witness stacks
UnserializeTransaction(s, fAllowWitness) ==
    Then(ReadBytes(s, INT32_BYTES), LAMBDA version :
    Then(ReadVin(version.rest), LAMBDA dummy :
    Then(IF dummy.val = <<>> /\ fAllowWitness THEN ReadBytes(dummy.rest, 1)
         ELSE ReadOk(<<0>>, dummy.rest), LAMBDA flags :
    Then(IF dummy.val = <<>> /\ fAllowWitness /\ flags.val[1] # 0 THEN ReadVin(flags.rest)
         ELSE ReadOk(dummy.val, flags.rest), LAMBDA vin :
    Then(IF dummy.val = <<>> /\ fAllowWitness /\ flags.val[1] = 0 THEN ReadOk(<<>>, vin.rest)
         ELSE ReadVout(vin.rest), LAMBDA vout :
    Then(IF flags.val[1] % 2 = 1 /\ fAllowWitness THEN ReadWitnesses(vin.val, 1, vout.rest)
         ELSE ReadOk(vin.val, vout.rest), LAMBDA witnessed :
        IF flags.val[1] % 2 = 1 /\ fAllowWitness /\ ~HasWitness(witnessed.val)
        THEN ReadFail  \* superfluous witness record
        ELSE IF (IF flags.val[1] % 2 = 1 /\ fAllowWitness
                 THEN flags.val[1] - 1 ELSE flags.val[1]) # 0
        THEN ReadFail  \* unknown transaction optional data
        ELSE Then(ReadBytes(witnessed.rest, INT32_BYTES), LAMBDA nLockTime :
                 ReadOk([version |-> version.val, vin |-> witnessed.val,
                         vout |-> vout.val, nLockTime |-> nLockTime.val],
                        nLockTime.rest))))))))

SerializeTransaction(tx, fAllowWitness) ==
    LET flags == IF fAllowWitness /\ HasWitness(tx.vin) THEN 1 ELSE 0 IN
    tx.version
    \o (IF flags # 0 THEN WriteCompactSize(0) \o <<flags>> ELSE <<>>)
    \o WriteVin(tx.vin)
    \o WriteVout(tx.vout)
    \o (IF flags % 2 = 1
        THEN Concat([i \in 1 .. Len(tx.vin) |-> WriteStack(tx.vin[i].scriptWitness)])
        ELSE <<>>)
    \o tx.nLockTime

RECURSIVE ReadTransactions(_, _, _, _)
ReadTransactions(n, s, acc, fAllowWitness) ==
    IF n = 0 THEN ReadOk(acc, s)
    ELSE Then(UnserializeTransaction(s, fAllowWitness), LAMBDA e :
             ReadTransactions(n - 1, e.rest, Append(acc, e.val), fAllowWitness))

\* CBlockHeader: nVersion, hashPrevBlock, hashMerkleRoot, nTime, nBits, nNonce
HeaderFields == <<INT32_BYTES, HASH_BYTES, HASH_BYTES, INT32_BYTES, INT32_BYTES, INT32_BYTES>>

RECURSIVE ReadFields(_, _, _)
ReadFields(widths, s, acc) ==
    IF widths = <<>> THEN ReadOk(acc, s)
    ELSE Then(ReadBytes(s, Head(widths)), LAMBDA f :
             ReadFields(Tail(widths), f.rest, Append(acc, f.val)))

\* CBlock: the header, then the vector of transactions
UnserializeBlock(s, fAllowWitness) ==
    Then(ReadFields(HeaderFields, s, <<>>), LAMBDA header :
    Then(ReadCompactSize(header.rest), LAMBDA n :
    Then(ReadTransactions(n.val, n.rest, <<>>, fAllowWitness), LAMBDA vtx :
        ReadOk([header |-> header.val, vtx |-> vtx.val], vtx.rest))))

SerializeBlock(block, fAllowWitness) ==
    Concat(block.header)
    \o WriteCompactSize(Len(block.vtx))
    \o Concat([i \in 1 .. Len(block.vtx) |-> SerializeTransaction(block.vtx[i], fAllowWitness)])

TX_WITH_WITNESS == TRUE
TX_NO_WITNESS == FALSE

(***************************************************************************)
(* Block and Transaction objects of the wrapper and their C handles.       *)
(* A pointer is a sequence: empty when null, else holding the pointee.     *)
(* An object is [m_impl], null where the constructor caught an exception.  *)
(***************************************************************************)
nullptr == <<>>
make_unique(x) == <<x>>

\* Block::BlockImpl(raw_block): extracts one CBlock from a stream over
\* raw_block; `stream` is what the local stream still holds when it returns
BlockImpl(raw_block) ==
    LET r == UnserializeBlock(raw_block, TX_WITH_WITNESS) IN
    [threw |-> ~r.ok, m_block |-> r.val, stream |-> r.rest]

\* Block::Block(raw_block) noexcept
Block(raw_block) ==
    LET impl == BlockImpl(raw_block) IN
    [m_impl |-> IF impl.threw THEN nullptr ELSE make_unique(impl.m_block)]

\* Transaction::Transaction(raw_transaction) noexcept
TransactionImpl(raw_transaction) ==
    LET r == UnserializeTransaction(raw_transaction, TX_WITH_WITNESS) IN
    [threw |-> ~r.ok, m_transaction |-> r.val, stream |-> r.rest]

Transaction(raw_transaction) ==
    LET impl == TransactionImpl(raw_transaction) IN
    [m_impl |-> IF impl.threw THEN nullptr ELSE make_unique(impl.m_transaction)]

\* kernel_block_create: the object is deleted when it is not valid
kernel_block_create(raw_block) ==
    LET block == Block(raw_block) IN
    IF block.m_impl = nullptr THEN nullptr ELSE make_unique(block)

\* kernel_transaction_create: the constructor is noexcept, so the catch is
\* never entered and the new object is returned as it is
kernel_transaction_create(raw_transaction) == make_unique(Transaction(raw_transaction))

GetBlockData_no_witness(block) == SerializeBlock(block.m_impl[1], TX_NO_WITNESS)

\* Block::GetBlockData
GetBlockData(block) == SerializeBlock(block.m_impl[1], TX_WITH_WITNESS)

(***************************************************************************)
(* Input buffers: encodings of a few small blocks and transactions, as     *)
(* they are, cut short, with bytes appended, or with one byte replaced.    *)
(***************************************************************************)
MaxTrailing == 2
MaxStackItems == 2

Fill(n, b) == [i \in 1 .. n |-> b]

PatchBytes == {0, 1, 2, 252, 253, 254, 255}

SampleTxIn(stack) ==
    [prevout |-> Fill(HASH_BYTES + INT32_BYTES, 7), scriptSig |-> <<>>,
     nSequence |-> Fill(INT32_BYTES, 255), scriptWitness |-> stack]

SampleTxOut == [nValue |-> Fill(INT64_BYTES, 5), scriptPubKey |-> <<81>>]

SampleTx(vin, vout) ==
    [version |-> <<2, 0, 0, 0>>, vin |-> vin, vout |-> vout, nLockTime |-> Fill(INT32_BYTES, 0)]

SampleStacks == {Fill(n, <<9>>) : n \in 0 .. MaxStackItems}

SampleTransactions ==
    {SampleTx(<<>>, <<>>)}
    \cup {SampleTx(<<SampleTxIn(st)>>, <<SampleTxOut>>) : st \in SampleStacks}
    \cup {SampleTx(<<SampleTxIn(<<>>), SampleTxIn(st)>>, <<>>) : st \in SampleStacks}

SampleHeader ==
    <<Fill(INT32_BYTES, 1), Fill(HASH_BYTES, 3), Fill(HASH_BYTES, 4),
      Fill(INT32_BYTES, 6), Fill(INT32_BYTES, 8), Fill(INT32_BYTES, 10)>>

SampleBlocks ==
    {[header |-> SampleHeader, vtx |-> <<>>]}
    \cup {[header |-> SampleHeader, vtx |-> <<tx>>] : tx \in SampleTransactions}
    \cup {[header |-> SampleHeader,
           vtx |-> <<SampleTx(<<SampleTxIn(<<>>)>>, <<SampleTxOut>>),
                     SampleTx(<<SampleTxIn(<<<<9>>>>)>>, <<SampleTxOut>>)>>]}

TrailingBytes == UNION {[1 .. n -> {0, 1}] : n \in 1 .. MaxTrailing}

\* the buffers derived from one encoding, each with the way it was derived
Buffers(enc) ==
    {[raw |-> enc, shape |-> "exact"]}
    \cup {[raw |-> enc \o t, shape |-> "trailing"] : t \in TrailingBytes}
    \cup {[raw |-> SubSeq(enc, 1, k), shape |-> "truncated"] : k \in 0 .. Len(enc) - 1}
    \cup {[raw |-> [enc EXCEPT ![p[1]] = p[2]], shape |-> "patched"] :
            p \in {q \in (1 .. Len(enc)) \X PatchBytes : enc[q[1]] # q[2]}}

BlockBuffers == UNION {Buffers(SerializeBlock(b, TX_WITH_WITNESS)) : b \in SampleBlocks}

TransactionBuffers ==
    UNION {Buffers(SerializeTransaction(tx, TX_WITH_WITNESS)) : tx \in SampleTransactions}

(***************************************************************************)
(* The decoding operations.                                                *)
(***************************************************************************)
CodecIdle ==
    [pc |-> "idle", kind |-> "none", raw |-> <<>>, shape |-> "none", threw |-> FALSE,
     unread |-> 0, object |-> [m_impl |-> nullptr], handle |-> nullptr, data |-> <<>>,
     copy |-> [m_impl |-> nullptr]]

\* a caller builds a Block over a buffer, through the class and through the C API
BlockCreate ==
    /\ codec.pc = "idle"
    /\ \E buf \in BlockBuffers :
         LET impl == BlockImpl(buf.raw) IN
         codec' = [CodecIdle EXCEPT !.pc = "created", !.kind = "block", !.raw = buf.raw,
                                    !.shape = buf.shape, !.threw = impl.threw,
                                    !.unread = Len(impl.stream),
                                    !.object = Block(buf.raw),
                                    !.handle = kernel_block_create(buf.raw)]
    /\ UNCHANGED <<verify, chain, manager, validation, context, logger, construction, threads>>

\* a caller builds a Transaction over a buffer, through the class and the C API
TransactionCreate ==
    /\ codec.pc = "idle"
    /\ \E buf \in TransactionBuffers :
         LET impl == TransactionImpl(buf.raw) IN
         codec' = [CodecIdle EXCEPT !.pc = "created", !.kind = "transaction",
                                    !.raw = buf.raw, !.shape = buf.shape,
                                    !.threw = impl.threw, !.unread = Len(impl.stream),
                                    !.object = Transaction(buf.raw),
                                    !.handle = kernel_transaction_create(buf.raw)]
    /\ UNCHANGED <<verify, chain, manager, validation, context, logger, construction, threads>>

\* GetBlockData on a valid block (kernel_copy_block_data)
BlockGetData ==
    /\ codec.pc = "created"
    /\ codec.kind = "block"
    /\ codec.object.m_impl # nullptr
    /\ codec' = [codec EXCEPT !.pc = "serialized", !.data = GetBlockData(codec.object)]
    /\ UNCHANGED <<verify, chain, manager, validation, context, logger, construction, threads>>

\* the bytes GetBlockData returned are decoded again
BlockFromData ==
    /\ codec.pc = "serialized"
    /\ codec' = [codec EXCEPT !.pc = "decoded_again", !.copy = Block(codec.data)]
    /\ UNCHANGED <<verify, chain, manager, validation, context, logger, construction, threads>>

\* the objects are destroyed
CodecDone ==
    /\ codec.pc # "idle"
    /\ codec' = CodecIdle
    /\ UNCHANGED <<verify, chain, manager, validation, context, logger, construction, threads>>

(***************************************************************************)
(* Properties of decoding and encoding.                                    *)
(***************************************************************************)
Created == codec.pc # "idle"

\* the transactions of the block held by an object
BlockTransactions(block) == block.m_impl[1].vtx

\* C6: decoding a block or a transaction fails, leaving an invalid object,
\* whenever the extraction throws (a malformed length prefix, missing
\* bytes), the buffer is a truncated encoding, or bytes remain in the
\* buffer after the last expected field has been read.
C6_StrictDecoding ==
    (Created /\ (codec.threw \/ codec.shape = "truncated" \/ codec.unread > 0))
        => codec.object.m_impl = nullptr

\* C7: kernel_block_create and kernel_transaction_create return null for
\* every buffer that does not decode, and every non-null handle refers to
\* a fully decoded object.
C7_NullHandleOnFailure ==
    Created =>
        /\ codec.threw => codec.handle = nullptr
        /\ codec.handle # nullptr => codec.handle[1].m_impl # nullptr

\* C8: for a buffer that is the canonical encoding of a block (it decodes
\* and nothing of it is left unread), GetBlockData of the Block built from
\* it returns exactly the buffer; and for every valid block, decoding the
\* bytes GetBlockData returned yields a valid block equal to it field for
\* field.
C8_RoundTrip ==
    /\ (codec.pc \in {"serialized", "decoded_again"} /\ codec.unread = 0)
           => codec.data = codec.raw
    /\ codec.pc = "decoded_again"
           => /\ codec.copy.m_impl # nullptr
              /\ codec.copy.m_impl[1] = codec.object.m_impl[1]

\* a block with a witness-carrying transaction after a plain one has made the round trip
C8_Witness ==
    /\ codec.pc = "decoded_again"
    /\ codec.unread = 0
    /\ Len(BlockTransactions(codec.object)) = 2
    /\ HasWitness(BlockTransactions(codec.object)[2].vin)
    /\ codec.data = codec.raw
    /\ codec.copy = codec.object

(***************************************************************************)
(* The chainstate manager: block index, active chain, coins view, block    *)
(* store (validation.cpp, node/blockstorage.cpp) behind the wrapper's      *)
(* ChainstateManager.  Blocks are named by their hash.                     *)
(***************************************************************************)
MaxCalls == 6

hashGenesisBlock == "G"

\* hashPrevBlock of the genesis block
hashNull == "0"

\* what the consensus checks find in a block, apart from its inputs:
\*   "bad_block"          CheckBlock fails (merkle root mismatch)
\*   "bad_header_context" ContextualCheckBlockHeader fails (time too old)
\*   "bad_contextual"     ContextualCheckBlock fails (coinbase height)
BlockData(prev, proof, check, spends) ==
    [hashPrevBlock |-> prev, proof |-> proof, check |-> check, spends |-> spends]

\* the blocks a caller can submit: two branches A and B on the genesis block
\* (B1 ties with A1, B2 outweighs A2, B3 and the heavy B4 spend a coin of
\* branch A, B4 directly on B1), a heavy
\* block C1 whose input does not exist, blocks failing each check, a child
\* K1 of a failed block, a block O1 whose parent is never submitted, and a
\* valid heavy block S1 on the genesis block.
\* A block creates one coin, named like the block, and spends `spends`.
BlockTable ==
    [G  |-> BlockData(hashNull, 1, "ok", {}),
     A1 |-> BlockData("G", 1, "ok", {}),
     A2 |-> BlockData("A1", 1, "ok", {"A1"}),
     B1 |-> BlockData("G", 1, "ok", {}),
     B2 |-> BlockData("B1", 2, "ok", {"B1"}),
     B3 |-> BlockData("B2", 1, "ok", {"A1"}),
     B4 |-> BlockData("B1", 3, "ok", {"A1"}),
     C1 |-> BlockData("G", 5, "ok", {"B1"}),
     D1 |-> BlockData("A1", 1, "bad_block", {}),
     E1 |-> BlockData("G", 1, "bad_contextual", {}),
     H1 |-> BlockData("G", 1, "bad_header_context", {}),
     K1 |-> BlockData("E1", 1, "ok", {}),
     O1 |-> BlockData("X", 1, "ok", {}),
     S1 |-> BlockData("G", 5, "ok", {})]

\* the blocks submitted one call at a time; S1 is submitted by the threads
BlockHashes == DOMAIN BlockTable \ {"S1"}

GetBlockProof(hash) == BlockTable[hash].proof

\* the coins a block adds to the view: its coinbase output (none for genesis)
CoinsCreated(hash) == IF hash = hashGenesisBlock THEN {} ELSE {hash}

\* a CBlockIndex; pprev is a pointer: nullptr or make_unique of a hash
CBlockIndex(pprev, nHeight, nChainWork) ==
    [pprev |-> pprev, nHeight |-> nHeight, nChainWork |-> nChainWork,
     nSequenceId |-> 0, nStatus |-> {"BLOCK_VALID_TREE"}]

BLOCK_FAILED_MASK == {"BLOCK_FAILED_VALID", "BLOCK_FAILED_CHILD"}

\* the state LoadChainstate leaves in a fresh data directory: only the
\* genesis block, stored, connected, its (empty) effect in the coins view
ChainstateLoaded ==
    [m_block_index |->
        [h \in {hashGenesisBlock} |->
            [CBlockIndex(nullptr, 0, GetBlockProof(hashGenesisBlock))
                EXCEPT !.nStatus = {"BLOCK_VALID_SCRIPTS", "BLOCK_HAVE_DATA"}]],
     m_chain |-> <<hashGenesisBlock>>,
     coins |-> {},
     undo |-> {},
     nBlockSequenceId |-> 1]

Tip(cs) == cs.m_chain[Len(cs.m_chain)]

\* BlockManager::AddToBlockIndex
AddToBlockIndex(cs, hash) ==
    IF hash \in DOMAIN cs.m_block_index THEN cs
    ELSE LET prev == BlockTable[hash].hashPrevBlock
             known == prev \in DOMAIN cs.m_block_index
             pindexNew ==
                 IF known
                 THEN CBlockIndex(make_unique(prev),
                                  cs.m_block_index[prev].nHeight + 1,
                                  cs.m_block_index[prev].nChainWork + GetBlockProof(hash))
                 ELSE CBlockIndex(nullptr, 0, GetBlockProof(hash))
         IN [cs EXCEPT !.m_block_index =
                [h \in DOMAIN cs.m_block_index \cup {hash} |->
                    IF h = hash THEN pindexNew ELSE cs.m_block_index[h]]]

\* the hashes from the genesis block to `hash`, following pprev
RECURSIVE ChainTo(_, _)
ChainTo(index, hash) ==
    IF index[hash].pprev = nullptr THEN <<hash>>
    ELSE Append(ChainTo(index, index[hash].pprev[1]), hash)

\* CBlockIndex::GetAncestor relation: a is on the path from genesis to b
IsAncestor(index, a, b) == \E k \in 1 .. Len(ChainTo(index, b)) : ChainTo(index, b)[k] = a

IsFailed(index, hash) == index[hash].nStatus \cap BLOCK_FAILED_MASK # {}

\* Chainstate::InvalidBlockFound / InvalidChainFound: the block is marked
\* failed and so is every indexed descendant of it
InvalidBlockFound(cs, hash) ==
    [cs EXCEPT !.m_block_index =
        [h \in DOMAIN cs.m_block_index |->
            IF h = hash
            THEN [cs.m_block_index[h] EXCEPT !.nStatus = @ \cup {"BLOCK_FAILED_VALID"}]
            ELSE IF IsAncestor(cs.m_block_index, hash, h)
            THEN [cs.m_block_index[h] EXCEPT !.nStatus = @ \cup {"BLOCK_FAILED_CHILD"}]
            ELSE cs.m_block_index[h]]]

BLOCK_VALID_LEVELS == {"BLOCK_VALID_TREE", "BLOCK_VALID_TRANSACTIONS", "BLOCK_VALID_SCRIPTS"}

\* CBlockIndex::RaiseValidity
RaiseValidity(nStatus, level) == (nStatus \ BLOCK_VALID_LEVELS) \cup {level}

\* BlockManager::WriteBlock and ChainstateManager::ReceivedBlockTransactions
ReceivedBlockTransactions(cs, hash) ==
    [cs EXCEPT !.m_block_index[hash].nStatus =
                   RaiseValidity(@, "BLOCK_VALID_TRANSACTIONS") \cup {"BLOCK_HAVE_DATA"},
               !.m_block_index[hash].nSequenceId = cs.nBlockSequenceId,
               !.nBlockSequenceId = @ + 1]

\* Chainstate::ConnectBlock's verdict on the view: every input is unspent
ConnectBlock(cs, hash) == BlockTable[hash].spends \subseteq cs.coins

ConnectTip_partial(cs, hash) ==
    IF ~ConnectBlock(cs, hash)
    THEN InvalidBlockFound([cs EXCEPT !.coins = @ \cup CoinsCreated(hash)], hash)
    ELSE [cs EXCEPT !.coins = (@ \ BlockTable[hash].spends) \cup CoinsCreated(hash),
                    !.undo = @ \cup {hash},
                    !.m_chain = Append(@, hash),
                    !.m_block_index[hash].nStatus =
                        RaiseValidity(@, "BLOCK_VALID_SCRIPTS") \cup {"BLOCK_HAVE_UNDO"}]

\* Chainstate::ConnectTip: the block is applied to a cache over the view,
\* which is flushed into the view only when ConnectBlock succeeded
ConnectTip(cs, hash) ==
    IF ~ConnectBlock(cs, hash) THEN InvalidBlockFound(cs, hash)
    ELSE [cs EXCEPT !.coins = (@ \ BlockTable[hash].spends) \cup CoinsCreated(hash),
                    !.undo = @ \cup {hash},
                    !.m_chain = Append(@, hash),
                    !.m_block_index[hash].nStatus =
                        RaiseValidity(@, "BLOCK_VALID_SCRIPTS") \cup {"BLOCK_HAVE_UNDO"}]

\* Chainstate::DisconnectTip: the undo data of the tip is applied to the view
DisconnectTip(cs) ==
    [cs EXCEPT !.coins = (@ \ CoinsCreated(Tip(cs))) \cup BlockTable[Tip(cs)].spends,
               !.m_chain = SubSeq(@, 1, Len(@) - 1)]

\* Chainstate::FindMostWorkChain: of the blocks whose data is stored and
\* which are not failed, the one with the most work, the earliest on a tie
FindMostWorkChain(cs) ==
    LET candidates == {h \in DOMAIN cs.m_block_index :
                          /\ "BLOCK_HAVE_DATA" \in cs.m_block_index[h].nStatus
                          /\ ~IsFailed(cs.m_block_index, h)}
        Better(a, b) ==
            \/ cs.m_block_index[a].nChainWork > cs.m_block_index[b].nChainWork
            \/ /\ cs.m_block_index[a].nChainWork = cs.m_block_index[b].nChainWork
               /\ cs.m_block_index[a].nSequenceId < cs.m_block_index[b].nSequenceId
    IN CHOOSE h \in candidates : \A o \in candidates \ {h} : Better(h, o)

RECURSIVE DisconnectToFork(_, _)
DisconnectToFork(cs, pindexMostWork) ==
    IF IsAncestor(cs.m_block_index, Tip(cs), pindexMostWork) THEN cs
    ELSE DisconnectToFork(DisconnectTip(cs), pindexMostWork)

\* the blocks of `path` above the tip are connected in order, up to the
\* first that fails
RECURSIVE ConnectBranch(_, _)
ConnectBranch(cs, path) ==
    IF Len(path) = Len(cs.m_chain) THEN cs
    ELSE LET pindexConnect == path[Len(cs.m_chain) + 1]
             connected == ConnectTip(cs, pindexConnect)
         IN IF Tip(connected) # pindexConnect THEN connected
            ELSE ConnectBranch(connected, path)

\* Chainstate::ActivateBestChainStep
ActivateBestChainStep(cs, pindexMostWork) ==
    ConnectBranch(DisconnectToFork(cs, pindexMostWork),
                  ChainTo(cs.m_block_index, pindexMostWork))

\* Chainstate::ActivateBestChain: steps until the tip is the most-work chain
RECURSIVE ActivateBestChain(_)
ActivateBestChain(cs) ==
    LET pindexMostWork == FindMostWorkChain(cs) IN
    IF pindexMostWork = Tip(cs) THEN cs
    ELSE ActivateBestChain(ActivateBestChainStep(cs, pindexMostWork))

MIN_BLOCKS_TO_KEEP == 288

\* what a call hands back: the return value, *new_block, the validation
\* result reported for the block, and the chainstate it leaves
Processed(ret, new_block, result, cs) ==
    [ret |-> ret, new_block |-> new_block, result |-> result, cs |-> cs]

\* CheckBlock: context-free checks of the block
CheckBlock(hash) == BlockTable[hash].check # "bad_block"

\* ContextualCheckBlockHeader, against the previous block's index entry
ContextualCheckBlockHeader(hash) == BlockTable[hash].check # "bad_header_context"

\* ContextualCheckBlock, against the previous block's index entry
ContextualCheckBlock(hash) == BlockTable[hash].check # "bad_contextual"

\* ChainstateManager::AcceptBlockHeader; `ret` tells whether the header is
\* accepted, `cs` holds its index entry when it is
AcceptBlockHeader(cs, hash, min_pow_checked) ==
    LET index == cs.m_block_index
        prev == BlockTable[hash].hashPrevBlock
    IN
    IF hash # hashGenesisBlock /\ hash \in DOMAIN index
    THEN IF IsFailed(index, hash)
         THEN Processed(FALSE, FALSE, "BLOCK_CACHED_INVALID", cs)
         ELSE Processed(TRUE, FALSE, "BLOCK_RESULT_UNSET", cs)
    ELSE IF hash # hashGenesisBlock /\ prev \notin DOMAIN index
    THEN Processed(FALSE, FALSE, "BLOCK_MISSING_PREV", cs)
    ELSE IF hash # hashGenesisBlock /\ IsFailed(index, prev)
    THEN Processed(FALSE, FALSE, "BLOCK_INVALID_PREV", cs)
    ELSE IF hash # hashGenesisBlock /\ ~ContextualCheckBlockHeader(hash)
    THEN Processed(FALSE, FALSE, "BLOCK_INVALID_HEADER", cs)
    ELSE IF ~min_pow_checked
    THEN Processed(FALSE, FALSE, "BLOCK_HEADER_LOW_WORK", cs)
    ELSE Processed(TRUE, FALSE, "BLOCK_RESULT_UNSET", AddToBlockIndex(cs, hash))

\* ChainstateManager::AcceptBlock
AcceptBlock(cs, hash, fRequested, min_pow_checked) ==
    LET header == AcceptBlockHeader(cs, hash, min_pow_checked) IN
    IF ~header.ret THEN header
    ELSE LET pindex == header.cs.m_block_index[hash]
             tip == header.cs.m_block_index[Tip(header.cs)]
             fAlreadyHave == "BLOCK_HAVE_DATA" \in pindex.nStatus
             fHasMoreOrSameWork == pindex.nChainWork >= tip.nChainWork
             fTooFarAhead == pindex.nHeight > tip.nHeight + MIN_BLOCKS_TO_KEEP
         IN
         IF fAlreadyHave THEN header
         ELSE IF ~fRequested /\ (~fHasMoreOrSameWork \/ fTooFarAhead) THEN header
         ELSE IF ~CheckBlock(hash) \/ ~ContextualCheckBlock(hash)
         THEN Processed(FALSE, FALSE, "BLOCK_CONSENSUS", InvalidBlockFound(header.cs, hash))
         ELSE Processed(TRUE, TRUE, "BLOCK_RESULT_UNSET",
                        ReceivedBlockTransactions(header.cs, hash))

\* ChainstateManager::ProcessNewBlock, with a new_block pointer
ProcessNewBlock(cs, hash, force_processing, min_pow_checked) ==
    IF ~CheckBlock(hash) THEN Processed(FALSE, FALSE, "BLOCK_MUTATED", cs)
    ELSE LET accepted == AcceptBlock(cs, hash, force_processing, min_pow_checked) IN
         IF ~accepted.ret THEN accepted
         ELSE [accepted EXCEPT !.cs = ActivateBestChain(accepted.cs)]

ProcessBlock_unforced(cs, block) ==
    ProcessNewBlock(cs, block.m_impl[1], FALSE, TRUE)

\* ChainstateManager::ProcessBlock(block, new_block)
ProcessBlock(cs, block) ==
    ProcessNewBlock(cs, block.m_impl[1], TRUE, TRUE)

\* BlockIndex: the wrapper's reference to one entry of the block index
BlockIndex(hash) == [m_impl |-> make_unique(hash)]

nullopt == <<>>
make_optional(x) == <<x>>

\* BlockIndex::GetHeight
GetHeight(cs, block_index) == cs.m_block_index[block_index.m_impl[1]].nHeight

GetPreviousBlockIndex_self(cs, block_index) ==
    LET index == cs.m_block_index[block_index.m_impl[1]].pprev IN
    IF index = nullptr THEN nullopt ELSE make_optional(block_index)

\* BlockIndex::GetPreviousBlockIndex
GetPreviousBlockIndex(cs, block_index) ==
    LET index == cs.m_block_index[block_index.m_impl[1]].pprev IN
    IF index = nullptr THEN nullopt ELSE make_optional(BlockIndex(index[1]))

GetBlockIndexFromTip_genesis(cs) == BlockIndex(cs.m_chain[1])

\* ChainstateManager::GetBlockIndexFromTip
GetBlockIndexFromTip(cs) == BlockIndex(Tip(cs))

\* ChainstateManager::GetBlockIndexFromGenesis
GetBlockIndexFromGenesis(cs) == BlockIndex(cs.m_chain[1])

\* CChain::Height
Height(cs) == Len(cs.m_chain) - 1

GetBlockIndexByHeight_exclusive(cs, height) ==
    IF height < 0 \/ height >= Height(cs) THEN nullopt
    ELSE make_optional(BlockIndex(cs.m_chain[height + 1]))

\* ChainstateManager::GetBlockIndexByHeight
GetBlockIndexByHeight(cs, height) ==
    IF height < 0 \/ height > Height(cs) THEN nullopt
    ELSE make_optional(BlockIndex(cs.m_chain[height + 1]))

kernel_get_previous_block_index_self(cs, block_index) ==
    LET prev_block_index == GetPreviousBlockIndex(cs, block_index) IN
    IF prev_block_index = nullopt THEN make_unique(block_index)
    ELSE make_unique(prev_block_index[1])

\* kernel_get_previous_block_index
kernel_get_previous_block_index(cs, block_index) ==
    LET prev_block_index == GetPreviousBlockIndex(cs, block_index) IN
    IF prev_block_index = nullopt THEN nullptr
    ELSE make_unique(prev_block_index[1])

(***************************************************************************)
(* The chain operations.                                                   *)
(***************************************************************************)
NoCall == [block |-> "none", ret |-> FALSE, new_block |-> FALSE,
           result |-> "BLOCK_RESULT_UNSET", known |-> FALSE]

ChainIdle == [cs |-> ChainstateLoaded, calls |-> 0, last |-> NoCall, prev |-> NoCall]

\* a caller submits one of the blocks; `known` records whether the block
\* was in the index when the call was made
ProcessBlockCall ==
    /\ chain.calls < MaxCalls
    /\ \E hash \in BlockHashes :
         LET out == ProcessBlock(chain.cs, [m_impl |-> make_unique(hash)]) IN
         chain' = [cs |-> out.cs,
                   calls |-> chain.calls + 1,
                   last |-> [block |-> hash, ret |-> out.ret, new_block |-> out.new_block,
                             result |-> out.result,
                             known |-> hash \in DOMAIN chain.cs.m_block_index],
                   prev |-> chain.last]
    /\ UNCHANGED <<verify, codec, manager, validation, context, logger, construction, threads>>

(***************************************************************************)
(* Properties of the chain index.                                          *)
(***************************************************************************)
\* the coins left by connecting the blocks from genesis up to a block
RECURSIVE BranchCoins(_)
BranchCoins(hash) ==
    IF hash = hashGenesisBlock THEN {}
    ELSE (BranchCoins(BlockTable[hash].hashPrevBlock) \ BlockTable[hash].spends)
         \cup CoinsCreated(hash)

\* a valid block: it and all the blocks below it down to genesis pass every
\* check, and each spends only coins that exist on its own branch
RECURSIVE ValidBlock(_)
ValidBlock(hash) ==
    /\ hash \in BlockHashes
    /\ BlockTable[hash].check = "ok"
    /\ \/ hash = hashGenesisBlock
       \/ /\ ValidBlock(BlockTable[hash].hashPrevBlock)
          /\ BlockTable[hash].spends \subseteq BranchCoins(BlockTable[hash].hashPrevBlock)

Submitted == chain'.calls = chain.calls + 1

RECURSIVE WalkBack(_, _, _)
WalkBack(cs, block_index, n) ==
    IF n <= 0 THEN make_optional(block_index)
    ELSE LET previous == GetPreviousBlockIndex(cs, block_index) IN
         IF previous = nullopt THEN nullopt ELSE WalkBack(cs, previous[1], n - 1)

\* C10: after any sequence of ProcessBlock calls, every entry of the index
\* other than genesis has a previous entry whose height is one less than
\* its own, genesis has height 0 and no previous entry, and GetHeight()
\* steps of GetPreviousBlockIndex from any entry end on the genesis entry.
C10_IndexIsTree ==
    \A hash \in DOMAIN chain.cs.m_block_index :
        LET entry == BlockIndex(hash)
            previous == GetPreviousBlockIndex(chain.cs, entry)
        IN /\ hash = hashGenesisBlock
                => GetHeight(chain.cs, entry) = 0 /\ previous = nullopt
           /\ hash # hashGenesisBlock
                => /\ previous # nullopt
                   /\ GetHeight(chain.cs, previous[1]) = GetHeight(chain.cs, entry) - 1
           /\ WalkBack(chain.cs, entry, GetHeight(chain.cs, entry))
                  = make_optional(GetBlockIndexFromGenesis(chain.cs))

\* the index holds two branches, one of them three blocks high, and a failed entry
C10_Witness ==
    /\ chain.calls >= 4
    /\ \E a, b \in DOMAIN chain.cs.m_block_index :
          /\ GetHeight(chain.cs, BlockIndex(a)) = 3
          /\ GetHeight(chain.cs, BlockIndex(b)) = 1
          /\ ~IsAncestor(chain.cs.m_block_index, b, a)
    /\ \E f \in DOMAIN chain.cs.m_block_index : IsFailed(chain.cs.m_block_index, f)

\* the entries that passed full validation: connected once, never failed
FullyValidated(cs) ==
    {h \in DOMAIN cs.m_block_index :
        /\ "BLOCK_VALID_SCRIPTS" \in cs.m_block_index[h].nStatus
        /\ ~IsFailed(cs.m_block_index, h)}

\* the entries whose block is stored and not failed
StoredValid(cs) ==
    {h \in DOMAIN cs.m_block_index :
        /\ "BLOCK_HAVE_DATA" \in cs.m_block_index[h].nStatus
        /\ ~IsFailed(cs.m_block_index, h)}

\* C11: after any sequence of ProcessBlock calls has returned, the entry
\* GetBlockIndexFromTip returns passed full validation, no entry that
\* passed full validation (and no stored, unfailed entry) has more chain
\* work, and every other such entry of equal work arrived later than it.
C11_TipHasMostWork ==
    LET index == chain.cs.m_block_index
        tip == GetBlockIndexFromTip(chain.cs).m_impl[1]
    IN /\ tip \in FullyValidated(chain.cs)
       /\ \A h \in (FullyValidated(chain.cs) \cup StoredValid(chain.cs)) \ {tip} :
             \/ index[h].nChainWork < index[tip].nChainWork
             \/ /\ index[h].nChainWork = index[tip].nChainWork
                /\ index[tip].nSequenceId < index[h].nSequenceId

\* the tip kept its place against a fully validated entry of equal work
\* that arrived later, and against a stored one
C11_Witness ==
    LET index == chain.cs.m_block_index
        tip == GetBlockIndexFromTip(chain.cs).m_impl[1]
    IN /\ tip # hashGenesisBlock
       /\ \E h \in FullyValidated(chain.cs) \ {tip} :
             /\ index[h].nChainWork = index[tip].nChainWork
             /\ index[tip].nSequenceId < index[h].nSequenceId
       /\ \E h \in DOMAIN index : IsFailed(index, h)

\* C12: after ProcessBlock has returned, also when a reorganization failed
\* to connect a block of the new branch, the active chain is the path from
\* genesis to the tip, every block on it passed full validation, the tip is
\* the best entry that connected, and the coins view is exactly the
\* cumulative effect of the blocks on that path: no part of a failed block
\* and no block off the active chain has left an effect in it.
C12_ReorgAbortIsAtomic ==
    LET cs == chain.cs IN
    /\ cs.m_chain = ChainTo(cs.m_block_index, Tip(cs))
    /\ \A k \in 1 .. Len(cs.m_chain) : cs.m_chain[k] \in FullyValidated(cs)
    /\ \A h \in FullyValidated(cs) :
          cs.m_block_index[h].nChainWork <= cs.m_block_index[Tip(cs)].nChainWork
    /\ cs.coins = BranchCoins(Tip(cs))

\* the last call started a reorganization to the branch B1-B4: B1 connected,
\* B4 failed, and the chain is back on the branch A1-A2
C12_Witness ==
    /\ chain.last.block = "B4"
    /\ chain.last.new_block
    /\ IsFailed(chain.cs.m_block_index, "B4")
    /\ "B1" \in FullyValidated(chain.cs)
    /\ Tip(chain.cs) = "A2"
    /\ chain.cs.coins = {"A2"}

\* C13: GetPreviousBlockIndex on the genesis entry returns nullopt and on
\* every other entry returns an entry of the index;
\* kernel_get_previous_block_index returns null exactly for genesis.
C13_PreviousOfGenesis ==
    \A hash \in DOMAIN chain.cs.m_block_index :
        LET previous == GetPreviousBlockIndex(chain.cs, BlockIndex(hash))
            handle == kernel_get_previous_block_index(chain.cs, BlockIndex(hash))
        IN /\ (previous = nullopt) <=> (hash = hashGenesisBlock)
           /\ (handle = nullptr) <=> (hash = hashGenesisBlock)
           /\ previous # nullopt
                => /\ previous[1].m_impl[1] \in DOMAIN chain.cs.m_block_index
                   /\ handle = make_unique(previous[1])

\* the index holds entries besides genesis, one of them failed
C13_Witness ==
    /\ Cardinality(DOMAIN chain.cs.m_block_index) >= 4
    /\ \E f \in DOMAIN chain.cs.m_block_index : IsFailed(chain.cs.m_block_index, f)
    /\ kernel_get_previous_block_index(chain.cs, GetBlockIndexFromGenesis(chain.cs)) = nullptr
    /\ kernel_get_previous_block_index(chain.cs, GetBlockIndexFromTip(chain.cs)) # nullptr

\* the heights a caller asks for: from below zero to above any chain
QueryHeights == -1 .. MaxCalls + 1

\* C14: GetBlockIndexByHeight(h) returns nullopt exactly when h < 0 or h
\* is above the height of the active tip; otherwise it returns the entry
\* of the active chain whose GetHeight() is h; for the tip's height that
\* is the tip's entry.
C14_LookupByHeight ==
    LET cs == chain.cs
        tip == GetBlockIndexFromTip(cs)
    IN /\ \A h \in QueryHeights :
             LET found == GetBlockIndexByHeight(cs, h) IN
             /\ (found = nullopt) <=> (h < 0 \/ h > GetHeight(cs, tip))
             /\ found # nullopt
                  => /\ GetHeight(cs, found[1]) = h
                     /\ IsAncestor(cs.m_block_index, found[1].m_impl[1], tip.m_impl[1])
       /\ GetBlockIndexByHeight(cs, GetHeight(cs, tip)) = make_optional(tip)

\* after a reorganization the lookup at height 1 gives the entry of the new branch
C14_Witness ==
    /\ Tip(chain.cs) = "B2"
    /\ "A2" \in DOMAIN chain.cs.m_block_index
    /\ GetBlockIndexByHeight(chain.cs, 1) = make_optional(BlockIndex("B1"))
    /\ GetBlockIndexByHeight(chain.cs, 2) = make_optional(GetBlockIndexFromTip(chain.cs))
    /\ GetBlockIndexByHeight(chain.cs, 3) = nullopt

(***************************************************************************)
(* The life of a ChainstateManager: its options object, its construction,  *)
(* the operations on it while it lives, and its destruction.               *)
(***************************************************************************)
\* the manager holds at most two chainstates: the one of the initial block
\* download and the one of a snapshot
MaxChainstates == 2

\* the number of operations on a live manager
MaxOps == 2

\* ChainstateManagerOptionsImpl as constructed: nothing is wiped
DefaultOptions == [wipe_data |-> FALSE, wipe_chainstate_db |-> FALSE]

SetWipeDbs_unguarded(options, wipe_block_tree, wipe_chainstate) ==
    [ret |-> TRUE,
     options |-> [options EXCEPT !.wipe_data = wipe_block_tree,
                                 !.wipe_chainstate_db = wipe_chainstate]]

\* ChainstateManagerOptions::SetWipeDbs
SetWipeDbs(options, wipe_block_tree, wipe_chainstate) ==
    IF wipe_block_tree /\ ~wipe_chainstate
    THEN [ret |-> FALSE, options |-> options]
    ELSE [ret |-> TRUE,
          options |-> [options EXCEPT !.wipe_data = wipe_block_tree,
                                      !.wipe_chainstate_db = wipe_chainstate]]

\* kernel_chainstate_manager_options_set_wipe_dbs
kernel_chainstate_manager_options_set_wipe_dbs(options, wipe_block_tree_db, wipe_chainstate_db) ==
    SetWipeDbs(options, wipe_block_tree_db, wipe_chainstate_db)

\* node::ChainstateLoadStatus
ChainstateLoadStatus ==
    {"SUCCESS", "FAILURE", "FAILURE_FATAL", "FAILURE_INCOMPATIBLE_DB",
     "FAILURE_INSUFFICIENT_DBCACHE", "INTERRUPTED"}

\* what the steps of a construction do: `impl` is the making of the
\* ::ChainstateManager, `load` and `verify` are the statuses returned by
\* LoadChainstate and VerifyLoadedChainstate, `activate` is what
\* ActivateBestChain returns for each chainstate in order; "throw" stands
\* for a step that throws
Constructions ==
    [impl : {"ok", "throw"},
     load : ChainstateLoadStatus \cup {"throw"},
     verify : ChainstateLoadStatus \cup {"throw"},
     activate : UNION {[1 .. n -> {"ok", "fail", "throw"}] : n \in 1 .. MaxChainstates}]

\* the first chainstate for which ActivateBestChain does not return true,
\* or 0 when there is none
RECURSIVE FirstNotActivated(_, _)
FirstNotActivated(activate, k) ==
    IF k > Len(activate) THEN 0
    ELSE IF activate[k] # "ok" THEN k
    ELSE FirstNotActivated(activate, k + 1)

ChainstateManager_unverified(steps) ==
    IF steps.impl = "throw" THEN [m_impl |-> nullptr]
    ELSE IF steps.load # "SUCCESS" THEN [m_impl |-> nullptr]
    ELSE IF FirstNotActivated(steps.activate, 1) # 0 THEN [m_impl |-> nullptr]
    ELSE [m_impl |-> make_unique("m_chainman")]

\* ChainstateManager::ChainstateManager(context, options) noexcept
ChainstateManager(steps) ==
    IF steps.impl = "throw" THEN [m_impl |-> nullptr]
    ELSE IF steps.load # "SUCCESS" THEN [m_impl |-> nullptr]
    ELSE IF steps.verify # "SUCCESS" THEN [m_impl |-> nullptr]
    ELSE IF FirstNotActivated(steps.activate, 1) # 0 THEN [m_impl |-> nullptr]
    ELSE [m_impl |-> make_unique("m_chainman")]

\* kernel_chainstate_manager_create
kernel_chainstate_manager_create(steps) ==
    LET chainman == ChainstateManager(steps) IN
    IF chainman.m_impl = nullptr THEN nullptr ELSE make_unique(chainman)

\* a Chainstate of the manager, as far as its coins views go: whether it
\* has them (CanFlushToDisk), whether the cache holds changes not yet
\* written to the coins database, and whether the views are still there
Chainstate(can_flush) == [can_flush |-> can_flush, dirty |-> FALSE, views |-> can_flush]

\* Chainstate::ForceFlushStateToDisk: the cache is written out unless the
\* storage fails, which is only logged
ForceFlushStateToDisk(chainstate, storage_ok) ==
    [chainstate EXCEPT !.dirty = IF storage_ok THEN FALSE ELSE @]

\* Chainstate::ResetCoinsViews
ResetCoinsViews(chainstate) == [chainstate EXCEPT !.views = FALSE]

\* the record of one step of a destruction
Step(op, k, chainstate) == [op |-> op, chainstate |-> k, dirty |-> chainstate.dirty]

\* what the destructor does with one chainstate, without the flush
DestroyChainstate_unflushed(chainstate, k, storage_ok) ==
    IF chainstate.can_flush
    THEN [chainstate |-> ResetCoinsViews(chainstate),
          trace |-> <<Step("reset", k, chainstate)>>]
    ELSE [chainstate |-> chainstate, trace |-> <<>>]

\* the body of the loop of ChainstateManager::~ChainstateManager
DestroyChainstate(chainstate, k, storage_ok) ==
    IF chainstate.can_flush
    THEN LET flushed == ForceFlushStateToDisk(chainstate, storage_ok) IN
         [chainstate |-> ResetCoinsViews(flushed),
          trace |-> <<Step("flush", k, flushed), Step("reset", k, flushed)>>]
    ELSE [chainstate |-> chainstate, trace |-> <<>>]

\* the loop of ChainstateManager::~ChainstateManager, from chainstate k on
RECURSIVE DestroyChainstates(_, _, _)
DestroyChainstates(chainstates, storage, k) ==
    IF k > Len(chainstates) THEN [chainstates |-> chainstates, trace |-> <<>>]
    ELSE LET one == DestroyChainstate(chainstates[k], k, storage[k])
             rest == DestroyChainstates([chainstates EXCEPT ![k] = one.chainstate],
                                        storage, k + 1)
         IN [chainstates |-> rest.chainstates, trace |-> one.trace \o rest.trace]

\* ChainstateManager::~ChainstateManager, and the release of m_impl after it
ChainstateManager_destructor(m_impl, chainstates, storage) ==
    IF m_impl # nullptr
    THEN LET all == DestroyChainstates(chainstates, storage, 1) IN
         [chainstates |-> all.chainstates,
          trace |-> Append(all.trace, [op |-> "release", chainstate |-> 0, dirty |-> FALSE])]
    ELSE [chainstates |-> chainstates, trace |-> <<>>]

\* what the block files hold for a Chain Index entry
StoredStates == {"stored", "never_stored", "pruned", "corrupt", "read_fails"}

\* the entry's data was never written, or was pruned away
Absent == {"never_stored", "pruned"}

\* the entry's data is there and cannot be read back
Damaged == {"corrupt", "read_fails"}

\* BlockManager::ReadBlock and BlockManager::ReadBlockUndo: true when the
\* data was read and checked, false in every other case; nothing is thrown
BlockManagerRead(stored) == stored = "stored"

\* ChainstateManager::ReadBlock
ReadBlock(stored) ==
    IF ~BlockManagerRead(stored) THEN nullopt ELSE make_optional("Block")

\* ChainstateManager::ReadBlockUndo
ReadBlockUndo(stored) ==
    IF ~BlockManagerRead(stored) THEN nullopt ELSE make_optional("BlockUndo")

\* kernel_read_block_from_disk
kernel_read_block_from_disk(stored) ==
    LET block == ReadBlock(stored) IN
    IF block = nullopt THEN nullptr ELSE make_unique(block[1])

\* kernel_read_block_undo_from_disk
kernel_read_block_undo_from_disk(stored) ==
    LET block_undo == ReadBlockUndo(stored) IN
    IF block_undo = nullopt THEN nullptr ELSE make_unique(block_undo[1])

\* kernel::Warning
Warning == {"UNKNOWN_NEW_RULES_ACTIVATED", "LARGE_WORK_INVALID_CHAIN"}

\* kernel_Warning
kernel_Warning == {"kernel_UNKNOWN_NEW_RULES_ACTIVATED", "kernel_LARGE_WORK_INVALID_CHAIN"}

\* cast_kernel_warning
cast_kernel_warning(warning) ==
    CASE warning = "UNKNOWN_NEW_RULES_ACTIVATED" -> "kernel_LARGE_WORK_INVALID_CHAIN"
      [] warning = "LARGE_WORK_INVALID_CHAIN" -> "kernel_LARGE_WORK_INVALID_CHAIN"

\* the errors the core reports while it carries out an operation
StorageErrors == {"none", "flush", "fatal"}

\* KernelNotificationsImpl::flushError and fatalError: the message is handed
\* to the handler, nothing else is recorded
Notify(notified, error) ==
    CASE error = "flush" -> [notified EXCEPT !.flush_error = @ + 1]
      [] error = "fatal" -> [notified EXCEPT !.fatal_error = @ + 1]
      [] OTHER -> notified

\* an error was reported through FlushErrorHandler or FatalErrorHandler
ErrorReported(notified) == notified.flush_error + notified.fatal_error > 0

\* no operation on the manager yet
NoOp == [op |-> "none", ret |-> FALSE, after_error |-> FALSE]

\* no call of SetWipeDbs yet
NoWipe == [called |-> FALSE, wipe_block_tree |-> FALSE, wipe_chainstate |-> FALSE,
           ret |-> FALSE, before |-> DefaultOptions]

\* no construction yet
NoSteps == [impl |-> "none", load |-> "none", verify |-> "none", activate |-> <<>>]

ManagerIdle ==
    [pc |-> "options", options |-> DefaultOptions, wipe |-> NoWipe,
     steps |-> NoSteps, chainman |-> nullptr, m_impl |-> nullptr,
     chainstates |-> <<>>, trace |-> <<>>, ops |-> 0,
     notified |-> [flush_error |-> 0, fatal_error |-> 0], last |-> NoOp,
     reads |-> {}, warnings |-> {}]

\* a call of kernel_chainstate_manager_options_set_wipe_dbs on the options
SetWipeDbsCall ==
    /\ manager.pc = "options"
    /\ \E wipe_block_tree \in BOOLEAN, wipe_chainstate \in BOOLEAN :
         LET r == kernel_chainstate_manager_options_set_wipe_dbs(
                      manager.options, wipe_block_tree, wipe_chainstate) IN
         manager' = [manager EXCEPT
                        !.options = r.options,
                        !.wipe = [called |-> TRUE, wipe_block_tree |-> wipe_block_tree,
                                  wipe_chainstate |-> wipe_chainstate, ret |-> r.ret,
                                  before |-> manager.options]]
    /\ UNCHANGED <<verify, codec, chain, validation, context, logger, construction, threads>>

\* a call of kernel_chainstate_manager_create with the options
ChainstateManagerCreate ==
    /\ manager.pc = "options"
    /\ \E steps \in Constructions :
       \E can_flush \in [1 .. Len(steps.activate) -> BOOLEAN] :
         LET chainman == ChainstateManager(steps)
             handle == kernel_chainstate_manager_create(steps) IN
         manager' = [manager EXCEPT
                        !.pc = IF chainman.m_impl # nullptr THEN "live" ELSE "invalid",
                        !.steps = steps,
                        !.m_impl = chainman.m_impl,
                        !.chainman = handle,
                        !.chainstates =
                            IF chainman.m_impl # nullptr
                            THEN [k \in 1 .. Len(steps.activate) |-> Chainstate(can_flush[k])]
                            ELSE <<>>]
    /\ UNCHANGED <<verify, codec, chain, validation, context, logger, construction, threads>>

\* the coins caches of the chainstates in `touched` that have one take changes
Touch(chainstates, touched) ==
    [k \in 1 .. Len(chainstates) |->
        IF k \in touched /\ chainstates[k].can_flush
        THEN [chainstates[k] EXCEPT !.dirty = TRUE]
        ELSE chainstates[k]]

\* ChainstateManager::ProcessBlock on the live manager: what ProcessNewBlock
\* returns, the error it reported if any, and the coins caches it changed
ManagerProcessBlock ==
    /\ manager.pc = "live"
    /\ manager.ops < MaxOps
    /\ \E touched \in SUBSET (1 .. Len(manager.chainstates)), error \in StorageErrors :
         manager' = [manager EXCEPT
                        !.ops = @ + 1,
                        !.chainstates = Touch(@, touched),
                        !.notified = Notify(@, error),
                        !.last = [op |-> "ProcessBlock", ret |-> error # "fatal",
                                  after_error |-> ErrorReported(manager.notified)]]
    /\ UNCHANGED <<verify, codec, chain, validation, context, logger, construction, threads>>

\* ChainstateManager::ImportBlocks on the live manager: node::ImportBlocks,
\* then the flush of the active chainstate (the last one of GetAll())
ManagerImportBlocks ==
    /\ manager.pc = "live"
    /\ manager.ops < MaxOps
    /\ \E touched \in SUBSET (1 .. Len(manager.chainstates)),
          error \in StorageErrors, threw \in BOOLEAN :
         LET imported == Touch(manager.chainstates, touched)
             active == Len(imported)
             flushed == IF threw \/ ~imported[active].can_flush THEN imported
                        ELSE [imported EXCEPT
                                 ![active] = ForceFlushStateToDisk(@, error = "none")]
         IN manager' = [manager EXCEPT
                        !.ops = @ + 1,
                        !.chainstates = flushed,
                        !.notified = Notify(@, error),
                        !.last = [op |-> "ImportBlocks", ret |-> ~threw,
                                  after_error |-> ErrorReported(manager.notified)]]
    /\ UNCHANGED <<verify, codec, chain, validation, context, logger, construction, threads>>

\* kernel_read_block_from_disk or kernel_read_block_undo_from_disk on an
\* entry of the live manager's index
ManagerReadBlock ==
    /\ manager.pc = "live"
    /\ manager.ops < MaxOps
    /\ \E stored \in StoredStates, kind \in {"block", "undo"} :
         LET outcome == IF kind = "block" THEN kernel_read_block_from_disk(stored)
                        ELSE kernel_read_block_undo_from_disk(stored)
         IN manager' = [manager EXCEPT
                        !.ops = @ + 1,
                        !.reads = @ \cup {[kind |-> kind, stored |-> stored,
                                           outcome |-> outcome, threw |-> FALSE]},
                        !.last = [op |-> "ReadBlock", ret |-> outcome # nullptr,
                                  after_error |-> ErrorReported(manager.notified)]]
    /\ UNCHANGED <<verify, codec, chain, validation, context, logger, construction, threads>>

\* an index query on the live manager: GetBlockIndexFromTip, which returns
\* the entry of the tip of the active chain
ManagerIndexQuery ==
    /\ manager.pc = "live"
    /\ manager.ops < MaxOps
    /\ manager' = [manager EXCEPT
                        !.ops = @ + 1,
                        !.last = [op |-> "GetBlockIndexFromTip",
                                  ret |-> GetBlockIndexFromTip(ChainstateLoaded) # nullopt,
                                  after_error |-> ErrorReported(manager.notified)]]
    /\ UNCHANGED <<verify, codec, chain, validation, context, logger, construction, threads>>

\* the core raises or clears a warning: CallbackKernelNotifications'
\* WarningSetHandler or WarningUnsetHandler calls the callback
ManagerWarning ==
    /\ manager.pc = "live"
    /\ manager.ops < MaxOps
    /\ \E id \in Warning, callback \in {"warning_set", "warning_unset"} :
         manager' = [manager EXCEPT
                        !.ops = @ + 1,
                        !.warnings = @ \cup {[callback |-> callback, raised |-> id,
                                              delivered |-> cast_kernel_warning(id)]}]
    /\ UNCHANGED <<verify, codec, chain, validation, context, logger, construction, threads>>

\* the destruction of the manager (kernel_chainstate_manager_destroy on a
\* handle, the destructor alone on an invalid ChainstateManager)
ChainstateManagerDestroy ==
    /\ manager.pc \in {"live", "invalid"}
    /\ \E storage \in [1 .. Len(manager.chainstates) -> BOOLEAN] :
         LET d == ChainstateManager_destructor(manager.m_impl, manager.chainstates, storage) IN
         manager' = [manager EXCEPT
                        !.pc = "destroyed",
                        !.chainstates = d.chainstates,
                        !.trace = d.trace]
    /\ UNCHANGED <<verify, codec, chain, validation, context, logger, construction, threads>>

\* C16: SetWipeDbs(true, false) returns false and leaves both stored wipe
\* settings as they were, and the stored options never ask to wipe the
\* block tree without wiping the chainstate.
C16_WipeBlockTreeNeedsChainstate ==
    /\ (manager.wipe.called /\ manager.wipe.wipe_block_tree /\ ~manager.wipe.wipe_chainstate)
          => (~manager.wipe.ret /\ manager.options = manager.wipe.before)
    /\ ~(manager.options.wipe_data /\ ~manager.options.wipe_chainstate_db)

C16_Witness ==
    /\ manager.wipe.called /\ manager.wipe.wipe_block_tree /\ ~manager.wipe.wipe_chainstate
    /\ manager.wipe.before = [wipe_data |-> TRUE, wipe_chainstate_db |-> TRUE]

\* every step of the construction did what it had to
AllStepsSucceeded(steps) ==
    /\ steps.impl = "ok"
    /\ steps.load = "SUCCESS"
    /\ steps.verify = "SUCCESS"
    /\ \A k \in 1 .. Len(steps.activate) : steps.activate[k] = "ok"

\* C19: after construction the ChainstateManager is valid exactly when
\* making the manager, LoadChainstate, VerifyLoadedChainstate and
\* ActivateBestChain for every chainstate all succeeded; otherwise it is
\* invalid and kernel_chainstate_manager_create returns null.
C19_ValidIffAllStepsSucceeded ==
    manager.steps # NoSteps =>
        /\ (manager.m_impl # nullptr) <=> AllStepsSucceeded(manager.steps)
        /\ (manager.chainman = nullptr) <=> ~AllStepsSucceeded(manager.steps)

C19_Witness ==
    /\ manager.steps # NoSteps
    /\ manager.steps.impl = "ok" /\ manager.steps.load = "SUCCESS"
    /\ manager.steps.verify = "FAILURE_FATAL"
    /\ manager.chainman = nullptr

\* the chainstates of the destroyed manager that could flush
Flushable == {k \in 1 .. Len(manager.chainstates) : manager.chainstates[k].can_flush}

\* the positions in the trace of the destruction of the steps `op` on chainstate k
Steps(op, k) ==
    {n \in 1 .. Len(manager.trace) :
        manager.trace[n].op = op /\ manager.trace[n].chainstate = k}

C15_NotFoundIsDistinct ==
    \A a \in manager.reads :
        a.stored \in Absent =>
            /\ ~a.threw
            /\ a.outcome = nullptr
            /\ \A b \in manager.reads :
                   (b.kind = a.kind /\ b.stored \in Damaged) => b.outcome # a.outcome

\* C18: once an error was reported through FlushErrorHandler or
\* FatalErrorHandler every further operation on the manager fails, and the
\* error is reported exactly once.
C18_PoisonedAfterError ==
    /\ manager.last.after_error => ~manager.last.ret
    /\ manager.notified.flush_error + manager.notified.fatal_error <= 1

\* the kernel_Warning that stands for a kernel::Warning
Counterpart(id) ==
    CASE id = "UNKNOWN_NEW_RULES_ACTIVATED" -> "kernel_UNKNOWN_NEW_RULES_ACTIVATED"
      [] id = "LARGE_WORK_INVALID_CHAIN" -> "kernel_LARGE_WORK_INVALID_CHAIN"

\* C20: the identifier handed to the warning-set and warning-unset callbacks
\* is the one of the warning the core raised or cleared, and two different
\* warnings are never delivered under the same identifier.
C20_WarningsDeliveredDistinctly ==
    /\ \A w \in manager.warnings : w.delivered = Counterpart(w.raised)
    /\ \A v \in manager.warnings, w \in manager.warnings :
           v.raised # w.raised => v.delivered # w.delivered

(***************************************************************************)
(* ValidationState (kernel/validation_state.h), its instance               *)
(* BlockValidationState, and what the validation observer is told about    *)
(* it through BlockChecked.                                                *)
(***************************************************************************)
MaxStateCalls == 3

\* enum class BlockValidationResult
BlockValidationResult ==
    {"BLOCK_RESULT_UNSET", "BLOCK_CONSENSUS", "BLOCK_CACHED_INVALID",
     "BLOCK_INVALID_HEADER", "BLOCK_MUTATED", "BLOCK_MISSING_PREV",
     "BLOCK_INVALID_PREV", "BLOCK_TIME_FUTURE", "BLOCK_HEADER_LOW_WORK"}

\* the reject reasons the calls are made with
RejectReasons == {"bad-blk", "disk-error"}

\* a BlockValidationState as constructed: m_mode{M_VALID}, m_result{}
BlockValidationState ==
    [m_mode |-> "M_VALID", m_result |-> "BLOCK_RESULT_UNSET", m_reject_reason |-> ""]

Invalid_unguarded(state, result, reject_reason) ==
    [state EXCEPT !.m_result = result,
                  !.m_reject_reason = reject_reason,
                  !.m_mode = "M_INVALID"]

\* ValidationState::Invalid
Invalid(state, result, reject_reason) ==
    [state EXCEPT !.m_result = result,
                  !.m_reject_reason = reject_reason,
                  !.m_mode = IF @ # "M_ERROR" THEN "M_INVALID" ELSE @]

\* ValidationState::Error
Error(state, reject_reason) ==
    [state EXCEPT !.m_reject_reason = IF state.m_mode = "M_VALID" THEN reject_reason ELSE @,
                  !.m_mode = "M_ERROR"]

IsValid(state) == state.m_mode = "M_VALID"
IsInvalid(state) == state.m_mode = "M_INVALID"
IsError(state) == state.m_mode = "M_ERROR"
GetResult(state) == state.m_result

kernel_get_validation_mode_from_block_validation_state_by_result(block_validation_state) ==
    IF GetResult(block_validation_state) = "BLOCK_RESULT_UNSET"
    THEN "kernel_VALIDATION_STATE_VALID"
    ELSE IF IsInvalid(block_validation_state) THEN "kernel_VALIDATION_STATE_INVALID"
    ELSE "kernel_VALIDATION_STATE_ERROR"

\* kernel_get_validation_mode_from_block_validation_state
kernel_get_validation_mode_from_block_validation_state(block_validation_state) ==
    IF IsValid(block_validation_state) THEN "kernel_VALIDATION_STATE_VALID"
    ELSE IF IsInvalid(block_validation_state) THEN "kernel_VALIDATION_STATE_INVALID"
    ELSE "kernel_VALIDATION_STATE_ERROR"

\* kernel_get_block_validation_result_from_block_validation_state
kernel_get_block_validation_result_from_block_validation_state(block_validation_state) ==
    LET result == GetResult(block_validation_state) IN
    CASE result = "BLOCK_RESULT_UNSET" -> "kernel_BLOCK_RESULT_UNSET"
      [] result = "BLOCK_CONSENSUS" -> "kernel_BLOCK_CONSENSUS"
      [] result = "BLOCK_CACHED_INVALID" -> "kernel_BLOCK_CACHED_INVALID"
      [] result = "BLOCK_INVALID_HEADER" -> "kernel_BLOCK_INVALID_HEADER"
      [] result = "BLOCK_MUTATED" -> "kernel_BLOCK_MUTATED"
      [] result = "BLOCK_MISSING_PREV" -> "kernel_BLOCK_MISSING_PREV"
      [] result = "BLOCK_INVALID_PREV" -> "kernel_BLOCK_INVALID_PREV"
      [] result = "BLOCK_TIME_FUTURE" -> "kernel_BLOCK_TIME_FUTURE"
      [] result = "BLOCK_HEADER_LOW_WORK" -> "kernel_BLOCK_HEADER_LOW_WORK"

\* the observer was not called yet
NotChecked ==
    [called |-> FALSE, state |-> BlockValidationState,
     mode |-> "none", result |-> "none"]

ValidationIdle == [state |-> BlockValidationState, calls |-> 0, checked |-> NotChecked]

\* the core calls state.Invalid(result, reject_reason)
StateInvalid ==
    /\ validation.calls < MaxStateCalls
    /\ \E result \in BlockValidationResult, reject_reason \in RejectReasons :
         validation' = [validation EXCEPT
                           !.calls = @ + 1,
                           !.state = Invalid(@, result, reject_reason)]
    /\ UNCHANGED <<verify, codec, chain, manager, context, logger, construction, threads>>

\* the core calls state.Error(reject_reason)
StateError ==
    /\ validation.calls < MaxStateCalls
    /\ \E reject_reason \in RejectReasons :
         validation' = [validation EXCEPT
                           !.calls = @ + 1,
                           !.state = Error(@, reject_reason)]
    /\ UNCHANGED <<verify, codec, chain, manager, context, logger, construction, threads>>

\* ValidationInterfaceImpl::BlockChecked hands the state to the observer,
\* who reads its mode and its result through the two kernel_get functions
BlockChecked ==
    /\ validation' = [validation EXCEPT
                         !.checked =
                             [called |-> TRUE, state |-> validation.state,
                              mode |-> kernel_get_validation_mode_from_block_validation_state(
                                           validation.state),
                              result |-> kernel_get_block_validation_result_from_block_validation_state(
                                             validation.state)]]
    /\ UNCHANGED <<verify, codec, chain, manager, context, logger, construction, threads>>

\* the kernel_BlockValidationResult of the same name
SameNamed(result) ==
    CASE result = "BLOCK_RESULT_UNSET" -> "kernel_BLOCK_RESULT_UNSET"
      [] result = "BLOCK_CONSENSUS" -> "kernel_BLOCK_CONSENSUS"
      [] result = "BLOCK_CACHED_INVALID" -> "kernel_BLOCK_CACHED_INVALID"
      [] result = "BLOCK_INVALID_HEADER" -> "kernel_BLOCK_INVALID_HEADER"
      [] result = "BLOCK_MUTATED" -> "kernel_BLOCK_MUTATED"
      [] result = "BLOCK_MISSING_PREV" -> "kernel_BLOCK_MISSING_PREV"
      [] result = "BLOCK_INVALID_PREV" -> "kernel_BLOCK_INVALID_PREV"
      [] result = "BLOCK_TIME_FUTURE" -> "kernel_BLOCK_TIME_FUTURE"
      [] result = "BLOCK_HEADER_LOW_WORK" -> "kernel_BLOCK_HEADER_LOW_WORK"

\* a state whose result is `result`
WithResult(result) == [BlockValidationState EXCEPT !.m_result = result]

\* C26: the observer is told VALID exactly when IsValid(), INVALID exactly
\* when IsInvalid() and ERROR exactly when IsError(), and the result code it
\* is told is the kernel code of the same name, two different results never
\* giving the same code.
C26_VerdictEqualsState ==
    /\ validation.checked.called =>
          LET state == validation.checked.state IN
          /\ (validation.checked.mode = "kernel_VALIDATION_STATE_VALID") <=> IsValid(state)
          /\ (validation.checked.mode = "kernel_VALIDATION_STATE_INVALID") <=> IsInvalid(state)
          /\ (validation.checked.mode = "kernel_VALIDATION_STATE_ERROR") <=> IsError(state)
          /\ validation.checked.result = SameNamed(GetResult(state))
    /\ \A a \in BlockValidationResult, b \in BlockValidationResult :
          a # b => kernel_get_block_validation_result_from_block_validation_state(WithResult(a))
                   # kernel_get_block_validation_result_from_block_validation_state(WithResult(b))

C26_Witness ==
    /\ validation.checked.called
    /\ IsError(validation.checked.state)
    /\ GetResult(validation.checked.state) = "BLOCK_MUTATED"
    /\ validation.checked.mode = "kernel_VALIDATION_STATE_ERROR"
    /\ validation.checked.result = "kernel_BLOCK_MUTATED"

\* exactly one of the three modes holds, and a valid state has no result
OneMode(state) ==
    /\ IsValid(state) \/ IsInvalid(state) \/ IsError(state)
    /\ ~(IsValid(state) /\ IsInvalid(state))
    /\ ~(IsValid(state) /\ IsError(state))
    /\ ~(IsInvalid(state) /\ IsError(state))
    /\ IsValid(state) => GetResult(state) = "BLOCK_RESULT_UNSET"

\* C30: under any sequence of Invalid() and Error() calls exactly one of
\* IsValid, IsInvalid, IsError holds; once the state is not valid it never
\* is again; once it is an error it stays one; and while it is valid its
\* result is the initial unset value.
C30_ModeOnlyWorsens ==
    /\ []OneMode(validation.state)
    /\ [][/\ ~IsValid(validation.state) => ~IsValid(validation'.state)
          /\ IsError(validation.state) => IsError(validation'.state)]_validation

C30_Witness ==
    /\ IsError(validation.state)
    /\ GetResult(validation.state) = "BLOCK_CONSENSUS"
    /\ validation.state.m_reject_reason = "bad-blk"
    /\ validation.calls = 3

(***************************************************************************)
(* Context and ContextOptions (bitcoinkernel.cpp:505-608) and their C      *)
(* wrappers (types.h:504-556).                                             *)
(***************************************************************************)
\* kernel_ChainType, and "none" for chain parameters that were not set
ChainTypes == {"MAINNET", "TESTNET", "TESTNET_4", "SIGNET", "REGTEST"}

\* ContextOptions::ContextOptions: nothing is set
ContextOptions ==
    [m_chainparams |-> "none", m_notifications |-> FALSE, m_validation_interface |-> FALSE]

\* Context::ContextImpl::ContextImpl: the members it ends up with, and
\* whether it registered a validation interface with its signals
ContextImpl(options) ==
    [m_chainparams |-> IF options.m_chainparams # "none"
                       THEN options.m_chainparams ELSE "MAINNET",
     m_notifications |-> IF options.m_notifications THEN "callbacks" ELSE "default",
     m_validation_interface |-> options.m_validation_interface,
     registered |-> IF options.m_validation_interface THEN 1 ELSE 0]

\* Context::Context(options): m_impl is dropped when the sanity checks failed
Context(options, sane) ==
    [m_impl |-> IF ~sane THEN nullptr ELSE make_unique(ContextImpl(options))]

\* kernel_context_create: the Context is handed out as it is
kernel_context_create(options, sane) == make_unique(Context(options, sane))

\* what the destruction of a Context did
Destroyed(unregistered, null_dereferenced, crashed) ==
    [done |-> TRUE, unregistered |-> unregistered,
     null_dereferenced |-> null_dereferenced, crashed |-> crashed]

\* Context::~Context: m_impl->m_validation_interface is read first; with a
\* null m_impl that read is undefined behaviour (`crashes` is what the
\* build makes of it)
Context_destructor(this, crashes) ==
    IF this.m_impl = nullptr
    THEN Destroyed(0, TRUE, crashes)
    ELSE IF this.m_impl[1].m_validation_interface
    THEN Destroyed(1, FALSE, FALSE)
    ELSE Destroyed(0, FALSE, FALSE)

\* kernel_context_destroy: delete on the handle, null or not
kernel_context_destroy(context_, crashes) ==
    IF context_ = nullptr
    THEN Destroyed(0, FALSE, FALSE)
    ELSE Context_destructor(context_[1], crashes)

NotDestroyed == [done |-> FALSE, unregistered |-> 0, null_dereferenced |-> FALSE, crashed |-> FALSE]

ContextIdle ==
    [pc |-> "options", options |-> ContextOptions, sane |-> TRUE,
     handle |-> nullptr, interrupted |-> FALSE, destroyed |-> NotDestroyed]

\* kernel_context_options_set_chainparams
SetChainParameters ==
    /\ context.pc = "options"
    /\ \E chain_type \in ChainTypes :
         context' = [context EXCEPT !.options.m_chainparams = chain_type]
    /\ UNCHANGED <<verify, codec, chain, manager, validation, logger, construction, threads>>

\* kernel_context_options_set_notifications
SetNotifications ==
    /\ context.pc = "options"
    /\ context' = [context EXCEPT !.options.m_notifications = TRUE]
    /\ UNCHANGED <<verify, codec, chain, manager, validation, logger, construction, threads>>

\* kernel_context_options_set_validation_interface
SetValidationInterface ==
    /\ context.pc = "options"
    /\ context' = [context EXCEPT !.options.m_validation_interface = TRUE]
    /\ UNCHANGED <<verify, codec, chain, manager, validation, logger, construction, threads>>

\* kernel_context_create with the options; kernel::SanityChecks passes or not
ContextCreate ==
    /\ context.pc = "options"
    /\ \E sane \in BOOLEAN :
         context' = [context EXCEPT !.pc = "created", !.sane = sane,
                                    !.handle = kernel_context_create(context.options, sane)]
    /\ UNCHANGED <<verify, codec, chain, manager, validation, logger, construction, threads>>

\* kernel_context_interrupt on a valid Context
ContextInterrupt ==
    /\ context.pc = "created"
    /\ context.handle[1].m_impl # nullptr
    /\ context' = [context EXCEPT !.interrupted = TRUE]
    /\ UNCHANGED <<verify, codec, chain, manager, validation, logger, construction, threads>>

\* kernel_context_destroy on the handle
ContextDestroy ==
    /\ context.pc = "created"
    /\ \E crashes \in BOOLEAN :
         context' = [context EXCEPT
                        !.pc = "destroyed",
                        !.destroyed = kernel_context_destroy(context.handle, crashes)]
    /\ UNCHANGED <<verify, codec, chain, manager, validation, logger, construction, threads>>

\* the validation interfaces the Context registered at construction
Registered == IF context.handle[1].m_impl = nullptr THEN 0
              ELSE context.handle[1].m_impl[1].registered

\* C28: destroying a Context is safe in every state it can be in after
\* construction: for a Context whose sanity check failed the destruction
\* completes without touching the missing implementation, and for a valid
\* Context the validation interface registered at construction is
\* unregistered exactly once.
C28_DestroyIsSafe ==
    context.destroyed.done =>
        /\ ~context.destroyed.null_dereferenced
        /\ ~context.destroyed.crashed
        /\ context.destroyed.unregistered = Registered

C28_ValidContextUnregistered ==
    /\ context.destroyed.done
    /\ context.handle[1].m_impl # nullptr
    /\ Registered = 1
    /\ context.destroyed.unregistered = 1

(***************************************************************************)
(* Logger (bitcoinkernel.cpp:274-318), its C wrappers (types.h:479-490)    *)
(* and the log instance it connects callbacks to.                          *)
(***************************************************************************)
MaxLoggers == 3

\* the Logger objects of a run, in the order of their construction
LoggerIds == 1 .. MaxLoggers

\* what BCLog::Logger::StartLogging does when it is called
StartOutcomes == {"ok", "fails", "throws"}

\* LogInstance() before any connection: no callback, buffering
LogInstance ==
    [callbacks |-> {}, started |-> FALSE, start_calls |-> 0,
     deleted |-> [id \in LoggerIds |-> 0]]

\* BCLog::Logger::PushBackCallback
PushBackCallback(log, id) == [log EXCEPT !.callbacks = @ \cup {id}]

\* BCLog::Logger::NumConnections
NumConnections(log) == Cardinality(log.callbacks)

\* BCLog::Logger::DeleteCallback: the list entry is erased
DeleteCallback(log, id) ==
    [log EXCEPT !.callbacks = @ \ {id}, !.deleted[id] = @ + 1]

\* BCLog::Logger::StartLogging
StartLogging(log, start) ==
    [log EXCEPT !.start_calls = @ + 1, !.started = (start = "ok")]

\* Logger::LoggerImpl::LoggerImpl: the log instance after it, and whether
\* it threw
LoggerImpl(log, id, start) ==
    LET pushed == PushBackCallback(log, id) IN
    IF NumConnections(pushed) = 1
    THEN LET tried == StartLogging(pushed, start) IN
         IF start = "throws" THEN [log |-> DeleteCallback(tried, id), threw |-> TRUE]
         ELSE IF start = "fails" THEN [log |-> DeleteCallback(tried, id), threw |-> FALSE]
         ELSE [log |-> tried, threw |-> FALSE]
    ELSE [log |-> pushed, threw |-> FALSE]

\* Logger::Logger: m_impl is null when the LoggerImpl constructor threw
Logger(log, id, start) ==
    LET impl == LoggerImpl(log, id, start) IN
    [log |-> impl.log, m_impl |-> IF impl.threw THEN nullptr ELSE make_unique(id)]

\* kernel_logging_connection_create: the Logger is handed out as it is
kernel_logging_connection_create(log, id, start) ==
    LET made == Logger(log, id, start) IN
    [log |-> made.log, logging_connection |-> make_unique([m_impl |-> made.m_impl])]

\* Logger::LoggerImpl::~LoggerImpl: the callback is deleted, and the log
\* instance goes back to buffering when nothing is left to log to
LoggerImpl_destructor(log, id) ==
    LET removed == DeleteCallback(log, id) IN
    IF removed.started /\ removed.callbacks = {}
    THEN [removed EXCEPT !.started = FALSE]
    ELSE removed

\* kernel_logging_connection_destroy
kernel_logging_connection_destroy(log, logging_connection) ==
    IF logging_connection = nullptr THEN log
    ELSE IF logging_connection[1].m_impl = nullptr THEN log
    ELSE LoggerImpl_destructor(log, logging_connection[1].m_impl[1])

LoggerIdle ==
    [log |-> LogInstance,
     handles |-> [id \in LoggerIds |-> nullptr],
     life |-> [id \in LoggerIds |-> "none"],
     crashed |-> FALSE]

\* the next kernel_logging_connection_create
LoggingConnectionCreate ==
    /\ ~logger.crashed
    /\ \E id \in LoggerIds, start \in StartOutcomes :
         /\ logger.life[id] = "none"
         /\ \A earlier \in 1 .. id - 1 : logger.life[earlier] # "none"
         /\ LET made == kernel_logging_connection_create(logger.log, id, start) IN
            logger' = [logger EXCEPT !.log = made.log,
                                     !.handles[id] = made.logging_connection,
                                     !.life[id] = "connected"]
    /\ UNCHANGED <<verify, codec, chain, manager, validation, context, construction, threads>>

\* kernel_logging_connection_destroy on a handle; deleting a callback that
\* was deleted before erases through a stale iterator, which is undefined
\* behaviour (`crashes` is what the build makes of it)
LoggingConnectionDestroy ==
    /\ ~logger.crashed
    /\ \E id \in LoggerIds, crashes \in BOOLEAN :
         /\ logger.life[id] = "connected"
         /\ LET stale == logger.handles[id][1].m_impl # nullptr
                         /\ id \notin logger.log.callbacks IN
            logger' = [logger EXCEPT
                          !.log = kernel_logging_connection_destroy(@, logger.handles[id]),
                          !.life[id] = "destroyed",
                          !.crashed = stale /\ crashes]
    /\ UNCHANGED <<verify, codec, chain, manager, validation, context, construction, threads>>

\* the Logger id is valid: operator bool, m_impl is not null
Valid(id) == logger.handles[id] # nullptr /\ logger.handles[id][1].m_impl # nullptr

\* C29: after any sequence of Logger constructions and destructions a live
\* Logger is valid exactly when its callback is registered with the log
\* instance, no callback is removed more than once, logging is on only
\* while a callback is registered, and nothing stays registered for a
\* Logger that was destroyed.
C29_ValidIffRegistered ==
    /\ \A id \in LoggerIds :
          /\ logger.life[id] = "connected" => (Valid(id) <=> id \in logger.log.callbacks)
          /\ logger.log.deleted[id] <= 1
          /\ logger.life[id] = "destroyed" => id \notin logger.log.callbacks
    /\ logger.log.started => logger.log.callbacks # {}

C29_LastLoggerDestroyed ==
    /\ \A id \in LoggerIds : logger.life[id] = "destroyed" /\ logger.log.deleted[id] = 1
    /\ logger.log.callbacks = {}
    /\ logger.log.start_calls = 1

(***************************************************************************)
(* The construction of a ChainstateManager while another thread calls the  *)
(* setters of the ChainstateManagerOptions it is constructed from.  Every  *)
(* section that holds the options' m_mutex is one step.                    *)
(***************************************************************************)
\* the number of setter calls on the options object
MaxSetterCalls == 3

\* ChainstateManagerOptionsImpl as constructed: the wipe and in-memory
\* switches of m_blockman_options.block_tree_db_params (wipe_data,
\* memory_only) and of m_chainstate_load_options
OptionsImpl ==
    [wipe_data |-> FALSE, memory_only |-> FALSE,
     wipe_chainstate_db |-> FALSE, coins_db_in_memory |-> FALSE]

\* ChainstateManagerOptions::SetBlockTreeDbInMemory
SetBlockTreeDbInMemory(options, block_tree_db_in_memory) ==
    [options EXCEPT !.memory_only = block_tree_db_in_memory]

\* ChainstateManagerOptions::SetChainstateDbInMemory
SetChainstateDbInMemory(options, chainstate_db_in_memory) ==
    [options EXCEPT !.coins_db_in_memory = chainstate_db_in_memory]

\* ChainstateManagerImpl: the ::ChainstateManager copies m_blockman_options
ChainstateManagerImpl(chainman_opts) ==
    [wipe_data |-> chainman_opts.wipe_data, memory_only |-> chainman_opts.memory_only]

\* chainstate_load_opts: the constructor's copy of m_chainstate_load_options
chainstate_load_opts(chainstate_manager_options) ==
    [wipe_chainstate_db |-> chainstate_manager_options.wipe_chainstate_db,
     coins_db_in_memory |-> chainstate_manager_options.coins_db_in_memory]

\* the options object before the constructor is called; `snapshots` are the
\* values the options object has had since the constructor started
ConstructionIdle ==
    [pc |-> "options", options |-> OptionsImpl, setter_calls |-> 0,
     m_impl |-> nullptr, load_opts |-> nullptr, snapshots |-> {}]

\* what a setter call leaves: the options, and their value noted while the
\* constructor runs
AfterSetter(options) ==
    [construction EXCEPT
        !.options = options,
        !.setter_calls = @ + 1,
        !.snapshots = IF construction.pc = "constructing" THEN @ \cup {options} ELSE @]

\* a thread calls ChainstateManagerOptions::SetWipeDbs
OptionsSetWipeDbs ==
    /\ construction.setter_calls < MaxSetterCalls
    /\ \E wipe_block_tree \in BOOLEAN, wipe_chainstate \in BOOLEAN :
         construction' =
             AfterSetter(SetWipeDbs(construction.options, wipe_block_tree,
                                    wipe_chainstate).options)
    /\ UNCHANGED <<verify, codec, chain, manager, validation, context, logger, threads>>

\* a thread calls ChainstateManagerOptions::SetBlockTreeDbInMemory
OptionsSetBlockTreeDbInMemory ==
    /\ construction.setter_calls < MaxSetterCalls
    /\ \E block_tree_db_in_memory \in BOOLEAN :
         construction' =
             AfterSetter(SetBlockTreeDbInMemory(construction.options,
                                                block_tree_db_in_memory))
    /\ UNCHANGED <<verify, codec, chain, manager, validation, context, logger, threads>>

\* a thread calls ChainstateManagerOptions::SetChainstateDbInMemory
OptionsSetChainstateDbInMemory ==
    /\ construction.setter_calls < MaxSetterCalls
    /\ \E chainstate_db_in_memory \in BOOLEAN :
         construction' =
             AfterSetter(SetChainstateDbInMemory(construction.options,
                                                 chainstate_db_in_memory))
    /\ UNCHANGED <<verify, codec, chain, manager, validation, context, logger, threads>>

\* ChainstateManager::ChainstateManager, its first try block: under the
\* options' m_mutex the ChainstateManagerImpl is made
ConstructorMakeImpl ==
    /\ construction.pc = "options"
    /\ construction' =
           [construction EXCEPT
               !.pc = "constructing",
               !.m_impl = make_unique(ChainstateManagerImpl(construction.options)),
               !.snapshots = {construction.options}]
    /\ UNCHANGED <<verify, codec, chain, manager, validation, context, logger, threads>>

\* ChainstateManager::ChainstateManager, its second try block: under the
\* options' m_mutex, taken again, the chainstate-load options are copied
\* and the chainstate is loaded with them
ConstructorLoadChainstate ==
    /\ construction.pc = "constructing"
    /\ construction' =
           [construction EXCEPT
               !.pc = "loaded",
               !.load_opts = make_unique(chainstate_load_opts(construction.options))]
    /\ UNCHANGED <<verify, codec, chain, manager, validation, context, logger, threads>>

\* C24: a ChainstateManager is constructed from one snapshot of its options:
\* the block-tree options and the chainstate-load options it uses are those
\* of one value the options object had while the constructor ran, and it
\* never runs with the block-tree wipe enabled and the chainstate wipe
\* disabled
C24_OneSnapshot ==
    construction.pc = "loaded"
        => /\ \E options \in construction.snapshots :
                /\ construction.m_impl = make_unique(ChainstateManagerImpl(options))
                /\ construction.load_opts = make_unique(chainstate_load_opts(options))
           /\ ~(construction.m_impl[1].wipe_data
                /\ ~construction.load_opts[1].wipe_chainstate_db)

\* a setter ran between the constructor's two copies and the manager was
\* constructed
C24_SetterDuringConstruction ==
    /\ construction.pc = "loaded"
    /\ Cardinality(construction.snapshots) > 1

(***************************************************************************)
(* Threads on one ChainstateManager: writers calling ProcessBlock and       *)
(* ImportBlocks, a reader calling the block index queries, and a thread     *)
(* that raises the interrupt of the Context.  A step is what a thread does  *)
(* between taking and releasing a lock, or between two locked sections.     *)
(***************************************************************************)
\* the number of ProcessBlock and ImportBlocks calls
MaxThreadCalls == 2

\* thread 1 calls ProcessBlock, thread 2 calls ImportBlocks
Writers == {1, 2}
Reader == 3
NoThread == 0

\* the blocks the writers submit: A1 and A2 build the chain G-A1-A2, S1 has
\* more work than both and shortens the chain to G-S1
ThreadBlocks == {"A1", "A2", "S1"}

\* the block files handed to ImportBlocks, as the blocks they hold in order
ImportFiles ==
    {f \in ThreadBlocks \X ThreadBlocks : f[1] # f[2]}

Free_always(mutex) == TRUE

\* Mutex: a lock can be taken when no thread holds it
Free(mutex) == mutex = NoThread

\* Mutex: the holder releases the lock
Released(mutex, t) == IF mutex = t THEN NoThread ELSE mutex

ReaderLock_none(t) == NoThread

\* LOCK / WITH_LOCK(m_chainman.GetMutex()) of the queries: the holder of
\* cs_main while the query reads the active chain
ReaderLock(t) == t

ManagerInterrupt_own(context_interrupt) == FALSE

\* ChainstateManagerImpl: the ::ChainstateManager is made with a reference
\* to the Context's interrupt, so its m_interrupt is that very flag
ManagerInterrupt(context_interrupt) == context_interrupt

\* the loop of LoadExternalBlockFile goes on while blocks are left and the
\* interrupt is not raised; ProcessNewBlock takes its block in any case
Continue(op, todo, m_interrupt) ==
    /\ todo # <<>>
    /\ ~(op = "ImportBlocks" /\ m_interrupt)

\* CChain::Next
Next(cs, pindex) ==
    LET nHeight == cs.m_block_index[pindex].nHeight IN
    IF nHeight + 1 <= Len(cs.m_chain) /\ cs.m_chain[nHeight + 1] = pindex
    THEN IF nHeight + 2 <= Len(cs.m_chain)
         THEN make_unique(cs.m_chain[nHeight + 2]) ELSE nullptr
    ELSE nullptr

\* ChainstateManager::GetNextBlockIndex
GetNextBlockIndex(cs, block_index) ==
    LET next_block_index == Next(cs, block_index.m_impl[1]) IN
    IF next_block_index = nullptr THEN nullopt
    ELSE make_optional(BlockIndex(next_block_index[1]))

\* what a query returns when it is evaluated on the chainstate `cs`
Query(cs, query, arg) ==
    CASE query = "GetBlockIndexFromTip" -> make_optional(GetBlockIndexFromTip(cs))
      [] query = "GetBlockIndexByHeight" -> GetBlockIndexByHeight(cs, arg)
      [] query = "GetNextBlockIndex" -> GetNextBlockIndex(cs, BlockIndex(arg))

\* Chainstate::ActivateBestChain, its inner loop: cs_main is not released
\* before the tip has at least the work of the tip the loop started from
\* (`stepped` ranges over the one chainstate the step leaves)
RECURSIVE ActivateUntilProgress(_, _)
ActivateUntilProgress(cs, starting_tip) ==
    IF FindMostWorkChain(cs) = Tip(cs) THEN cs
    ELSE CHOOSE left \in
             {IF stepped.m_block_index[Tip(stepped)].nChainWork
                     < cs.m_block_index[starting_tip].nChainWork
              THEN ActivateUntilProgress(stepped, starting_tip)
              ELSE stepped :
                 stepped \in {ActivateBestChainStep(cs, pindexMostWork) :
                                  pindexMostWork \in {FindMostWorkChain(cs)}}} : TRUE

\* a writer thread outside any call
WriterIdle ==
    [pc |-> "idle", op |-> "none", todo |-> <<>>, accepted |-> {},
     more |-> FALSE, accepted_interrupted |-> 0]

\* the reader thread before its first query: `locked` and `at` are the
\* active chain when the query took the lock and when it read the chain,
\* `returned_before` are the blocks of the write calls that had returned
\* when the query took the lock, `sees_returned` tells whether the query
\* read their effect
ReaderIdle ==
    [pc |-> "idle", query |-> "none", arg |-> 0, local_height |-> 0,
     locked |-> nullptr, at |-> nullptr, result |-> nullopt, beyond |-> FALSE,
     returned_before |-> {}, sees_returned |-> FALSE]

\* a loaded manager with no thread in it; `returned` are the blocks that
\* were accepted by a write call that has returned
ThreadsIdle ==
    [cs |-> ChainstateLoaded, cs_main |-> NoThread, m_chainstate_mutex |-> NoThread,
     m_interrupt |-> FALSE, writer |-> [t \in Writers |-> WriterIdle],
     reader |-> ReaderIdle, calls |-> 0, returned |-> {}]

\* a thread calls ChainstateManager::ProcessBlock
ThreadProcessBlock ==
    /\ threads.calls < MaxThreadCalls
    /\ \E t \in {1}, hash \in ThreadBlocks :
         /\ threads.writer[t].pc = "idle"
         /\ threads' = [threads EXCEPT
                           !.calls = @ + 1,
                           !.writer[t] = [WriterIdle EXCEPT
                                             !.pc = "checkpoint",
                                             !.op = "ProcessBlock",
                                             !.todo = <<hash>>]]
    /\ UNCHANGED <<verify, codec, chain, manager, validation, context, logger, construction>>

\* a thread calls ChainstateManager::ImportBlocks
ThreadImportBlocks ==
    /\ threads.calls < MaxThreadCalls
    /\ \E t \in {2}, file \in ImportFiles :
         /\ threads.writer[t].pc = "idle"
         /\ threads' = [threads EXCEPT
                           !.calls = @ + 1,
                           !.writer[t] = [WriterIdle EXCEPT
                                             !.pc = "checkpoint",
                                             !.op = "ImportBlocks",
                                             !.todo = file]]
    /\ UNCHANGED <<verify, codec, chain, manager, validation, context, logger, construction>>

\* the head of the loop over the blocks: the thread takes cs_main for the
\* next block, or leaves the loop; ProcessBlock returns then, ImportBlocks
\* goes on to flush
ThreadCheckpoint ==
    /\ \E t \in Writers :
         LET w == threads.writer[t] IN
         /\ w.pc = "checkpoint"
         /\ IF Continue(w.op, w.todo, ManagerInterrupt(threads.m_interrupt))
            THEN /\ Free(threads.cs_main)
                 /\ threads' = [threads EXCEPT !.cs_main = t,
                                               !.writer[t].pc = "accepting"]
            ELSE IF w.op = "ImportBlocks"
            THEN threads' = [threads EXCEPT !.writer[t].pc = "flush"]
            ELSE threads' = [threads EXCEPT !.writer[t].pc = "idle",
                                            !.writer[t].accepted = {},
                                            !.writer[t].more = FALSE,
                                            !.returned = @ \cup w.accepted]
    /\ UNCHANGED <<verify, codec, chain, manager, validation, context, logger, construction>>

\* under cs_main: CheckBlock and AcceptBlock of the next block
ThreadAcceptBlock ==
    /\ \E t \in Writers :
         /\ threads.writer[t].pc = "accepting"
         /\ LET w == threads.writer[t]
                hash == Head(w.todo)
                accepted == IF ~CheckBlock(hash)
                            THEN Processed(FALSE, FALSE, "BLOCK_MUTATED", threads.cs)
                            ELSE AcceptBlock(threads.cs, hash, TRUE, TRUE)
            IN threads' = [threads EXCEPT
                              !.cs = accepted.cs,
                              !.cs_main = Released(@, t),
                              !.writer[t].todo = Tail(@),
                              !.writer[t].accepted =
                                  IF accepted.ret THEN @ \cup {hash} ELSE @,
                              !.writer[t].accepted_interrupted =
                                  IF w.op = "ImportBlocks" /\ threads.m_interrupt
                                  THEN @ + 1 ELSE @,
                              !.writer[t].pc =
                                  IF accepted.ret THEN "activate" ELSE "checkpoint"]
    /\ UNCHANGED <<verify, codec, chain, manager, validation, context, logger, construction>>

\* Chainstate::ActivateBestChain: the thread holds m_chainstate_mutex for
\* the whole loop and takes cs_main for each step
ThreadLockActivate ==
    /\ \E t \in Writers :
         /\ threads.writer[t].pc = "activate"
         /\ Free(threads.cs_main)
         /\ Free(threads.m_chainstate_mutex) \/ threads.m_chainstate_mutex = t
         /\ threads' = [threads EXCEPT !.cs_main = t,
                                       !.m_chainstate_mutex = t,
                                       !.writer[t].pc = "activating"]
    /\ UNCHANGED <<verify, codec, chain, manager, validation, context, logger, construction>>

\* under cs_main: the steps towards the most-work chain up to a tip with
\* the work of the starting tip, or nothing when the tip is the most-work
\* chain already
ThreadActivateStep ==
    /\ \E t \in Writers :
         /\ threads.writer[t].pc = "activating"
         /\ IF FindMostWorkChain(threads.cs) = Tip(threads.cs)
            THEN threads' = [threads EXCEPT
                                !.cs_main = Released(@, t),
                                !.m_chainstate_mutex = Released(@, t),
                                !.writer[t].pc = "checkpoint"]
            ELSE \E stepped \in {ActivateUntilProgress(threads.cs, Tip(threads.cs))} :
                   threads' = [threads EXCEPT
                                  !.cs = stepped,
                                  !.cs_main = Released(@, t),
                                  !.writer[t].more =
                                      Tip(stepped) # FindMostWorkChain(stepped),
                                  !.writer[t].pc = "stepped"]
    /\ UNCHANGED <<verify, codec, chain, manager, validation, context, logger, construction>>

\* after a step: the loop of ActivateBestChain ends when the interrupt is
\* raised or the tip is the most-work chain
ThreadAfterStep ==
    /\ \E t \in Writers :
         LET w == threads.writer[t] IN
         /\ w.pc = "stepped"
         /\ IF ManagerInterrupt(threads.m_interrupt) \/ ~w.more
            THEN threads' = [threads EXCEPT
                                !.m_chainstate_mutex = Released(@, t),
                                !.writer[t].pc = "checkpoint"]
            ELSE threads' = [threads EXCEPT !.writer[t].pc = "activate"]
    /\ UNCHANGED <<verify, codec, chain, manager, validation, context, logger, construction>>

\* ImportBlocks: ForceFlushStateToDisk under cs_main, then the call returns
ThreadFlush ==
    /\ \E t \in Writers :
         /\ threads.writer[t].pc = "flush"
         /\ Free(threads.cs_main)
         /\ threads' = [threads EXCEPT
                           !.writer[t].pc = "idle",
                           !.writer[t].accepted = {},
                           !.writer[t].more = FALSE,
                           !.returned = @ \cup threads.writer[t].accepted]
    /\ UNCHANGED <<verify, codec, chain, manager, validation, context, logger, construction>>

\* a thread calls Context::Interrupt
ThreadInterrupt ==
    /\ ~threads.m_interrupt
    /\ threads' = [threads EXCEPT !.m_interrupt = TRUE]
    /\ UNCHANGED <<verify, codec, chain, manager, validation, context, logger, construction>>

\* the arguments of the queries: the heights asked for, and the entries
\* handed to GetNextBlockIndex, which the caller got from an earlier query
Queries ==
    [query : {"GetBlockIndexFromTip"}, arg : {0}]
        \cup [query : {"GetBlockIndexByHeight"}, arg : 1 .. 2]
        \cup [query : {"GetNextBlockIndex"},
              arg : {"G", "A1"} \cap DOMAIN threads.cs.m_block_index]

\* the effect of the write calls that returned is in the chainstate `cs`:
\* the blocks they accepted are stored in the block index and, unless the
\* interrupt cut a call short, the tip has at least the work of every such
\* block that is not marked failed
SeesReturned(cs, returned, m_interrupt) ==
    /\ \A hash \in returned :
          /\ hash \in DOMAIN cs.m_block_index
          /\ "BLOCK_HAVE_DATA" \in cs.m_block_index[hash].nStatus
    /\ ~m_interrupt
          => \A hash \in returned \cap StoredValid(cs) :
                cs.m_block_index[hash].nChainWork
                    <= cs.m_block_index[Tip(cs)].nChainWork

\* a query takes cs_main
ReaderLockChain ==
    /\ threads.reader.pc = "idle"
    /\ Free(threads.cs_main)
    /\ \E q \in Queries :
         threads' = [threads EXCEPT
                        !.cs_main = ReaderLock(Reader),
                        !.reader = [ReaderIdle EXCEPT
                                       !.pc = "locked",
                                       !.query = q.query,
                                       !.arg = q.arg,
                                       !.locked = make_unique(threads.cs.m_chain),
                                       !.returned_before = threads.returned]]
    /\ UNCHANGED <<verify, codec, chain, manager, validation, context, logger, construction>>

\* the query reads the height of the active chain
ReaderHeight ==
    /\ threads.reader.pc = "locked"
    /\ threads' = [threads EXCEPT !.reader.pc = "checked",
                                  !.reader.local_height = Height(threads.cs)]
    /\ UNCHANGED <<verify, codec, chain, manager, validation, context, logger, construction>>

\* the query reads its entry of the active chain and releases cs_main;
\* GetBlockIndexByHeight reads the position it checked against the height
\* it read before
ReaderIndex ==
    /\ threads.reader.pc = "checked"
    /\ LET r == threads.reader
           by_height == r.query = "GetBlockIndexByHeight"
           in_range == ~(r.arg < 0 \/ r.arg > r.local_height)
           beyond == by_height /\ in_range /\ r.arg > Height(threads.cs)
       IN threads' = [threads EXCEPT
                         !.cs_main = Released(@, Reader),
                         !.reader.pc = "idle",
                         !.reader.at = make_unique(threads.cs.m_chain),
                         !.reader.returned_before = {},
                         !.reader.sees_returned =
                             SeesReturned(threads.cs, r.returned_before,
                                          threads.m_interrupt),
                         !.reader.beyond = beyond,
                         !.reader.result =
                             IF by_height /\ ~in_range THEN nullopt
                             ELSE IF beyond THEN nullopt
                             ELSE Query(threads.cs, r.query, r.arg)]
    /\ UNCHANGED <<verify, codec, chain, manager, validation, context, logger, construction>>

\* a writer inside a section that changes the block index and the coins
InSection(t) == threads.writer[t].pc \in {"accepting", "activating"}

\* a writer inside the loop of ActivateBestChain
InSequence(t) == threads.writer[t].pc \in {"activating", "stepped"}

\* C21: with several threads calling ProcessBlock and ImportBlocks on one
\* manager, no two of them are inside a section that changes the block
\* index and the coins at a time, no two are inside a connection /
\* reorganization sequence at a time, and the thread inside holds the lock
C21_OneWriterInside ==
    \A t \in Writers :
        /\ InSection(t) => threads.cs_main = t
        /\ InSequence(t) => threads.m_chainstate_mutex = t
        /\ \A o \in Writers \ {t} :
              /\ ~(InSection(t) /\ InSection(o))
              /\ ~(InSequence(t) /\ InSequence(o))

\* one writer is inside its section while the other waits for the lock
\* with a block of its own
C21_Witness ==
    /\ InSection(1)
    /\ threads.writer[2].pc \in {"checkpoint", "activate"}
    /\ threads.writer[2].todo # <<>> \/ threads.writer[2].pc = "activate"

WholeBlocks(cs) ==
    /\ cs.coins = BranchCoins(Tip(cs))
    /\ cs.m_chain = ChainTo(cs.m_block_index, Tip(cs))
    /\ \A k \in 1 .. Len(cs.m_chain) :
          "BLOCK_HAVE_DATA" \in cs.m_block_index[cs.m_chain[k]].nStatus

\* a write call is running on thread t
Running(t) == threads.writer[t].pc # "idle"

\* C23: when the interrupt of the Context is raised while ImportBlocks or a
\* reorganization runs, the call eventually returns; ImportBlocks takes no
\* further block after the one it had in hand when the interrupt was
\* raised, and the coins and stored blocks are those of a whole number of
\* connected blocks
C23_InterruptStopsImport ==
    /\ [](\A t \in Writers :
             /\ threads.writer[t].accepted_interrupted <= 1
             /\ ~InSection(t) => WholeBlocks(threads.cs))
    /\ \A t \in Writers :
          (Running(t) /\ threads.m_interrupt) ~> ~Running(t)

\* ImportBlocks returned with a block of its file left, on an interrupt
\* raised while it had the first block in hand
C23_Witness ==
    \E t \in Writers :
        /\ threads.writer[t].op = "ImportBlocks"
        /\ threads.writer[t].pc = "idle"
        /\ threads.writer[t].todo # <<>>
        /\ threads.writer[t].accepted_interrupted = 1
        /\ Len(threads.cs.m_chain) > 1

(***************************************************************************)
(* Specifications.                                                         *)
(***************************************************************************)
\* every part of the program as it is before its first operation
AllIdle ==
    /\ verify = VerifyIdle
    /\ codec = CodecIdle
    /\ chain = ChainIdle
    /\ manager = ManagerIdle
    /\ validation = ValidationIdle
    /\ context = ContextIdle
    /\ logger = LoggerIdle
    /\ construction = ConstructionIdle
    /\ threads = ThreadsIdle

InitVerify == AllIdle

NextVerify ==
    \/ VerifyScriptCall
    \/ KernelVerifyScriptCall
    \/ VerifyScriptDone

SpecVerify == InitVerify /\ [][NextVerify]_vars

InitCodec == AllIdle

NextCodec == BlockCreate \/ TransactionCreate \/ BlockGetData \/ BlockFromData \/ CodecDone

SpecCodec == InitCodec /\ [][NextCodec]_vars

InitChain == AllIdle

NextChain == ProcessBlockCall

SpecChain == InitChain /\ [][NextChain]_vars

InitManager == AllIdle

NextManager ==
    \/ SetWipeDbsCall
    \/ ChainstateManagerCreate
    \/ ManagerProcessBlock
    \/ ManagerImportBlocks
    \/ ManagerReadBlock
    \/ ManagerIndexQuery
    \/ ManagerWarning
    \/ ChainstateManagerDestroy

SpecManager == InitManager /\ [][NextManager]_vars

InitValidation == AllIdle

NextValidation ==
    \/ StateInvalid
    \/ StateError
    \/ BlockChecked

SpecValidation == InitValidation /\ [][NextValidation]_vars

InitContext == AllIdle

NextContext ==
    \/ SetChainParameters
    \/ SetNotifications
    \/ SetValidationInterface
    \/ ContextCreate
    \/ ContextInterrupt
    \/ ContextDestroy

SpecContext == InitContext /\ [][NextContext]_vars

InitLogger == AllIdle

NextLogger ==
    \/ LoggingConnectionCreate
    \/ LoggingConnectionDestroy

SpecLogger == InitLogger /\ [][NextLogger]_vars

InitConstruction == AllIdle

NextConstruction ==
    \/ OptionsSetWipeDbs
    \/ OptionsSetBlockTreeDbInMemory
    \/ OptionsSetChainstateDbInMemory
    \/ ConstructorMakeImpl
    \/ ConstructorLoadChainstate

SpecConstruction == InitConstruction /\ [][NextConstruction]_vars

InitThreads == AllIdle

NextThreads ==
    \/ ThreadProcessBlock
    \/ ThreadImportBlocks
    \/ ThreadCheckpoint
    \/ ThreadAcceptBlock
    \/ ThreadLockActivate
    \/ ThreadActivateStep
    \/ ThreadAfterStep
    \/ ThreadFlush
    \/ ThreadInterrupt
    \/ ReaderLockChain
    \/ ReaderHeight
    \/ ReaderIndex

SpecThreads == InitThreads /\ [][NextThreads]_vars

InitImport == AllIdle

\* a write call takes its next step
WriterStep ==
    \/ ThreadCheckpoint
    \/ ThreadAcceptBlock
    \/ ThreadLockActivate
    \/ ThreadActivateStep
    \/ ThreadAfterStep
    \/ ThreadFlush

NextImport ==
    \/ ThreadProcessBlock
    \/ ThreadImportBlocks
    \/ ThreadCheckpoint
    \/ ThreadAcceptBlock
    \/ ThreadLockActivate
    \/ ThreadActivateStep
    \/ ThreadAfterStep
    \/ ThreadFlush
    \/ ThreadInterrupt

\* the threads are scheduled: while a write call can take a step, one does
SpecImport ==
    /\ InitImport
    /\ [][NextImport]_vars
    /\ WF_vars(WriterStep)

====
